---- MODULE Spec2Model ----
(***************************************************************************)
(* Sale / inventory workflow of RepairServiceAPI.                          *)
(*                                                                         *)
(* SalesService (src/src/sales/sales.service.ts) over the Product, Sale    *)
(* and SaleItem tables of src/prisma/schema.prisma, together with          *)
(* ProductsService.remove (src/src/products/products.service.ts).          *)
(*                                                                         *)
(* Every service method is an async function: each `await` on the storage  *)
(* layer is one step of the calling process, so that calls of different    *)
(* requests interleave between their storage statements.  A Prisma         *)
(* interactive transaction ($transaction(async prisma => ...)) runs on     *)
(* PostgreSQL at READ COMMITTED: its writes stay private until COMMIT, an  *)
(* UPDATE locks the row it writes until the transaction ends, and any      *)
(* exception thrown in the callback rolls the transaction back.            *)
(*                                                                         *)
(* Money is kept in whole units (the Float columns price and totalAmount   *)
(* are summed in input order by the code, and so are they here).           *)
(***************************************************************************)
EXTENDS Integers, Sequences, FiniteSets, TLC

(***************************************************************************)
(* Bounds of the model.                                                    *)
(***************************************************************************)
MaxStock == 2
MaxQty == 2
MaxItems == 2
MaxPrice == 1
MaxSales == 2
MaxCatalogPrice == 60

(***************************************************************************)
(* The universe of identifiers.  "px", "cx" and "ux" are well-formed ids   *)
(* that resolve to no row.                                                 *)
(***************************************************************************)
Procs == {"a", "b"}
ProductIds == {"p1", "p2"}
NoProduct == "px"
CustomerIds == {"c1"}
NoCustomer == "cx"
UserIds == {"u1"}
NoUser == "ux"
SaleIds == 1..MaxSales
Undef == "undefined"
Null == "null"
NoSale == 0

\* price column of the two catalog products (schema.prisma: Product.price)
CatalogPrice == [id \in ProductIds |-> IF id = "p1" THEN 2 ELSE 3]

\* name column of the two catalog products (schema.prisma: Product.name)
CatalogName == [id \in ProductIds |-> IF id = "p1" THEN "Pantalla" ELSE "Bateria"]

Placeholder == "Cliente no registrado"

\* enum Role, and the accounts the shop starts with: one technician
Admin == "ADMIN"
Technician == "TECHNICIAN"
Staff == [email \in {"ana@shop"} |-> [role |-> Technician, isActive |-> TRUE]]

\* the days a sale can be created on, as getFullYear(), getMonth() and getDate()
\* of the server read them: a day and a month of one digit, and of two
Dates == {[year |-> 2025, month |-> 3, date |-> 6], [year |-> 2025, month |-> 10, date |-> 23]}
Epoch == [year |-> 2025, month |-> 3, date |-> 6]
NoDate == [year |-> 0, month |-> 0, date |-> 0]

VARIABLES
    products,   \* table Product: id -> [name, stock, price, isActive]
    sales,      \* table Sale: id -> [customerId, customerName, userId, totalAmount,
                \* paymentMethod, createdAt]
    saleItems,  \* table SaleItem: set of [saleId, pos, productId, quantity, price]
    nextSaleId, \* the next fresh Sale id (@default(uuid()))
    repairOrders, \* tables RepairOrder and RepairOrderItem: id -> [status, endDate,
                \* initialReviewCost, totalCost, items], the items of an order
                \* being a sequence of [productId, quantity, price]
    users,      \* table User: email -> [role, isActive]
    pc,         \* per client: the await its running call is suspended at
    req,        \* per client: the method called and its arguments
    loc,        \* per client: the local variables of the running method
    res,        \* per client: the response to its last call, until its next call
    wrote,      \* history: the call has changed a persisted table
    snap        \* history: the stock before the latest createSale, how many of its
                \* items lacked stock, and the sale it made; the sale the latest
                \* call returned the invoice of, and whether the call before did too

vars == <<products, sales, saleItems, nextSaleId, repairOrders, users, pc, req, loc, res,
          wrote, snap>>

(***************************************************************************)
(* Helpers on sequences.                                                   *)
(***************************************************************************)
RECURSIVE SumSeq(_)
SumSeq(s) == IF s = <<>> THEN 0 ELSE Head(s) + SumSeq(Tail(s))

RECURSIVE SeqsUpTo(_, _)
SeqsUpTo(S, n) ==
    IF n = 0 THEN {<<>>}
    ELSE LET shorter == SeqsUpTo(S, n - 1)
         IN  shorter \cup {Append(s, x) : s \in {t \in shorter : Len(t) = n - 1}, x \in S}

(***************************************************************************)
(* Request values.                                                         *)
(***************************************************************************)
\* CreateSaleItemDto: an optional price is <<>> (absent) or <<n>>
ItemDtos(pids, prices) ==
    [productId : pids, quantity : 1..MaxQty, price : prices]

NoDto == [items |-> <<>>, customerId |-> Undef, customerName |-> Undef,
          paymentMethod |-> Undef, hasItems |-> FALSE]
\* UpdateProductDto: an optional number is <<>> (absent) or <<n>>, an optional
\* string is Undef (absent) or the string
NoPatch == [name |-> Undef, price |-> <<>>, stock |-> <<>>]
NoReq == [op |-> "none", dto |-> NoDto, userId |-> Undef, saleId |-> NoSale,
          productId |-> Undef, patch |-> NoPatch, quantity |-> 0]
NoLoc == [items |-> <<>>, totalAmount |-> 0, i |-> 0, saleId |-> NoSale, refs |-> 0,
          createdAt |-> NoDate, imported |-> 0, errors |-> <<>>]
NoRes == [op |-> "none", outcome |-> "none", saleId |-> NoSale, at |-> 0, info |-> <<>>]
NoSnap == [saleId |-> NoSale, stockBefore |-> <<>>, deleting |-> FALSE, short |-> 0,
           invoiced |-> NoSale, again |-> FALSE]

(***************************************************************************)
(* Outcomes of a call.  InvalidInput, InsufficientStock and Failed are all *)
(* BadRequestException in the code, told apart by their message; NotFound  *)
(* is NotFoundException.                                                   *)
(***************************************************************************)
Ok == "ok"
InvalidInputEmpty == "InvalidInput: La venta debe tener al menos un item"
InvalidInputProducts == "InvalidInput: Uno o mas productos no existen"
InvalidInputItems == "InvalidInput: No se pueden modificar los items"
NotFoundCustomer == "NotFound: Cliente"
NotFoundSale == "NotFound: Venta"
NotFoundProduct == "NotFound: Producto"
InsufficientStock == "InsufficientStock"
InvalidInputStock == "InvalidInput: No hay suficiente stock disponible"
Failed == "Failed: Error al ..."

(***************************************************************************)
(* The tables.                                                             *)
(***************************************************************************)
\* the SaleItem rows of a sale, in creation order (findOne's include: items)
RECURSIVE ItemsByPos(_)
ItemsByPos(rows) ==
    IF rows = {} THEN <<>>
    ELSE LET r == CHOOSE x \in rows : \A y \in rows : x.pos <= y.pos
         IN  <<r>> \o ItemsByPos(rows \ {r})

SaleItemsOf(id) == ItemsByPos({r \in saleItems : r.saleId = id})

Stocks == [q \in DOMAIN products |-> products[q].stock]

\* a lookup that never misses
SaleFound_Always(id) == TRUE

\* findOne, lines 204-219: the sale is found
SaleFound(id) == id \in DOMAIN sales

\* a deleteMany without its where clause
DeleteManyWhere_All(id) == saleItems

\* lines 387-389: the rows that deleteMany({where: {saleId: id}}) deletes
DeleteManyWhere(id) == {r \in saleItems : r.saleId = id}

(***************************************************************************)
(* Transactions.  The writes of an open transaction are the statements the *)
(* callback has executed so far, which the position of the request         *)
(* determines: loc.i is the index of the next item of the stock loop.      *)
(***************************************************************************)
InCreateTx(p) == pc[p] \in {"cs_decrement", "cs_commit"}
InDeleteTx(p) == pc[p] \in {"ds_increment", "ds_deleteItems", "ds_deleteSale", "ds_commit"}
InTx(p) == InCreateTx(p) \/ InDeleteTx(p)

\* the items whose product.update the transaction has executed
Updated(p) == IF InTx(p) THEN SubSeq(loc[p].items, 1, loc[p].i - 1) ELSE <<>>

\* product rows the transaction holds the row lock of (UPDATE ... WHERE id)
RowLocks(p) == {Updated(p)[k].productId : k \in 1..Len(Updated(p))}

\* product rows the transaction holds a key-share lock of (the foreign key
\* SaleItem_productId_fkey of the rows it inserted)
KeyLocks(p) ==
    IF InCreateTx(p) THEN {loc[p].items[k].productId : k \in 1..Len(loc[p].items)} ELSE {}

LockedByOther(p, q) == \E r \in Procs \ {p} : q \in RowLocks(r)
KeyLockedByOther(p, q) == \E r \in Procs \ {p} : q \in KeyLocks(r)

\* a decrement of one unit, whatever the quantity of the item
Decrement_One(stock, quantity) == stock - 1

\* stock: { decrement: item.quantity } / stock: { increment: item.quantity }
Decrement(stock, quantity) == stock - quantity

\* an increment that ignores the quantity of the item
Increment_One(stock, quantity) == stock + 1

Increment(stock, quantity) == stock + quantity

RECURSIVE ApplyStock(_, _, _)
ApplyStock(tbl, items, create) ==
    IF items = <<>> THEN tbl
    ELSE LET it == Head(items)
             t2 == IF it.productId \in DOMAIN tbl
                   THEN [tbl EXCEPT ![it.productId].stock =
                            IF create THEN Decrement(@, it.quantity)
                            ELSE Increment(@, it.quantity)]
                   ELSE tbl
         IN  ApplyStock(t2, Tail(items), create)

NewSale(p) ==
    [customerId |-> req[p].dto.customerId,
     customerName |-> req[p].dto.customerName,
     userId |-> req[p].userId,
     totalAmount |-> loc[p].totalAmount,
     paymentMethod |-> req[p].dto.paymentMethod,
     createdAt |-> loc[p].createdAt]

\* a sale.create whose nested create of the items is left out
NewSaleItems_None(p) == {}

\* lines 83-89: the rows of items: { create: [...] }
NewSaleItems(p) ==
    {[saleId |-> loc[p].saleId, pos |-> k,
      productId |-> loc[p].items[k].productId,
      quantity |-> loc[p].items[k].quantity,
      price |-> loc[p].items[k].price] : k \in 1..Len(loc[p].items)}

\* the tables as the open transaction of p sees them
TxView(p) ==
    [products |-> ApplyStock(products, Updated(p), InCreateTx(p)),
     sales |->
        IF InCreateTx(p) THEN (loc[p].saleId :> NewSale(p)) @@ sales
        ELSE IF pc[p] = "ds_commit"
             THEN [id \in DOMAIN sales \ {req[p].saleId} |-> sales[id]]
        ELSE sales,
     saleItems |->
        IF InCreateTx(p) THEN saleItems \cup NewSaleItems(p)
        ELSE IF pc[p] \in {"ds_deleteSale", "ds_commit"}
             THEN saleItems \ DeleteManyWhere(req[p].saleId)
        ELSE saleItems]

\* a commit that publishes the stock updates without the rows of the sale
AfterCommit_StockOnly(p) == [TxView(p) EXCEPT !.sales = sales, !.saleItems = saleItems]

\* $transaction resolves: COMMIT publishes the writes of the callback
AfterCommit(p) == TxView(p)

\* the same statements run without a transaction: an error keeps what ran
AfterRollback_NoTx(p) == TxView(p)

\* $transaction rejects: ROLLBACK drops the writes of the callback
AfterRollback(p) == [products |-> products, sales |-> sales, saleItems |-> saleItems]

SetDb(d) ==
    /\ products' = d.products
    /\ sales' = d.sales
    /\ saleItems' = d.saleItems

\* history: a step of a call changed a persisted table
Track(p) ==
    wrote' = [wrote EXCEPT ![p] = (pc[p] # "idle" /\ @) \/ products' # products
                                    \/ sales' # sales \/ saleItems' # saleItems]

\* the method returns or throws: its locals are gone, the response is left.
\* `id` is the sale the call was about; `at` is the item the error names, or the
\* index of the stock update the transaction had reached when it failed;
\* `info` is what the body of the response carries besides
Finish(p, op, outcome, id, at, info) ==
    /\ pc' = [pc EXCEPT ![p] = "idle"]
    /\ res' = [res EXCEPT ![p] = [op |-> op, outcome |-> outcome, saleId |-> id,
                                   at |-> at, info |-> info]]
    /\ req' = [req EXCEPT ![p] = NoReq]
    /\ loc' = [loc EXCEPT ![p] = NoLoc]

\* the method suspends at its next await
Goto(p, l) ==
    /\ pc' = [pc EXCEPT ![p] = l]
    /\ res' = [res EXCEPT ![p] = NoRes]

(***************************************************************************)
(* SalesService.create                                                     *)
(***************************************************************************)
\* JavaScript's !x on an optional string and on an optional number
FalsyStr(x) == x = Undef \/ x = Null \/ x = ""
FalsyNum(x) == x = <<>> \/ x[1] = 0

\* a comparison that also rejects a quantity equal to the stock
StockShort_Strict(stock, quantity) == stock <= quantity

\* a comparison that lets one unit more than the stock through
StockShort_OffByOne(stock, quantity) == stock + 1 < quantity

\* line 59: product.stock < item.quantity
StockShort(stock, quantity) == stock < quantity

\* lines 66-68: the unit price of an item
UnitPrice(item, product) == IF FalsyNum(item.price) THEN product.price ELSE item.price[1]

\* line 48: products.length !== productIds.length, where findMany({id: {in:
\* productIds}}) returns each matching row once
ProductsMissing(items) ==
    Cardinality({items[k].productId : k \in 1..Len(items)} \cap DOMAIN products)
        # Len(items)

\* a check that looks at the first item only
FirstShort_HeadOnly(items) ==
    IF items # <<>> /\ StockShort(products[items[1].productId].stock, items[1].quantity)
    THEN 1 ELSE 0

\* lines 56-63: the index of the first item short of stock, 0 when there is none
FirstShort(items) ==
    LET short == {k \in 1..Len(items) :
                    StockShort(products[items[k].productId].stock, items[k].quantity)}
    IN  IF short = {} THEN 0 ELSE CHOOSE k \in short : \A j \in short : k <= j

\* the message that names the last item short of stock
ShortInfo_Last(items) ==
    LET short == {k \in 1..Len(items) :
                    StockShort(products[items[k].productId].stock, items[k].quantity)}
        k == CHOOSE j \in short : \A i \in short : i <= j
    IN  [product |-> items[k].productId,
         available |-> products[items[k].productId].stock,
         requested |-> items[k].quantity]

\* lines 60-62: `Stock insuficiente para el producto ${product.name}.
\* Disponible: ${product.stock}, Solicitado: ${item.quantity}` of the item the
\* loop stopped at; the product is named by its id
ShortInfo(items) ==
    LET k == FirstShort(items)
    IN  [product |-> items[k].productId,
         available |-> products[items[k].productId].stock,
         requested |-> items[k].quantity]

\* history: how many items of the request lack stock
ShortCount(items) ==
    Cardinality({k \in 1..Len(items) :
                    products[items[k].productId].stock < items[k].quantity})

\* lines 66-68 over the items: item.price = product.price where it is falsy
Priced(items) ==
    [k \in 1..Len(items) |->
        [productId |-> items[k].productId, quantity |-> items[k].quantity,
         price |-> UnitPrice(items[k], products[items[k].productId])]]

\* lines 53, 70: totalAmount += item.price * item.quantity
TotalAmount(priced) == SumSeq([k \in 1..Len(priced) |-> priced[k].price * priced[k].quantity])

\* lines 35-38: the placeholder customer name
WithCustomerName(dto) ==
    IF FalsyStr(dto.customerId) /\ FalsyStr(dto.customerName)
    THEN [dto EXCEPT !.customerName = Placeholder]
    ELSE dto

\* a lookup that finds every customer
CustomerFound_Always(id) == TRUE

\* lines 28-34, 314-320: customer.findUnique({where: {id}}) returns a row
CustomerFound(id) == id \in CustomerIds

\* a test of the items that lets an empty array through
ItemsGiven_NonEmpty(dto) == dto.hasItems /\ dto.items # <<>>

\* JavaScript's truthiness of dto.items: an array, even an empty one, is truthy
ItemsGiven(dto) == dto.hasItems

\* a test that forgets the length of the array
NoItems_AbsentOnly(dto) == ~ItemsGiven(dto)

\* line 22: !createSaleDto.items || createSaleDto.items.length === 0
NoItems(dto) == ~ItemsGiven(dto) \/ Len(dto.items) = 0

\* creates that have not inserted their Sale yet
PendingCreates == Cardinality({p \in Procs : pc[p] \in {"cs_findMany", "cs_create"}})

\* lines 19-38: the call, the empty-items check and the customer lookup
CreateBegin(p, dto, userId) ==
    /\ pc[p] = "idle"
    /\ nextSaleId + PendingCreates <= MaxSales
    /\ IF NoItems(dto)
          THEN Finish(p, "createSale", InvalidInputEmpty, NoSale, 0, <<>>)
       ELSE IF ~FalsyStr(dto.customerId) /\ ~CustomerFound(dto.customerId)
          THEN Finish(p, "createSale", NotFoundCustomer, NoSale, 0, <<>>)
       ELSE /\ Goto(p, "cs_findMany")
            /\ req' = [req EXCEPT ![p] = [NoReq EXCEPT !.op = "createSale",
                            !.userId = userId, !.dto = WithCustomerName(dto)]]
            /\ loc' = [loc EXCEPT ![p] = NoLoc]
    /\ snap' = [NoSnap EXCEPT !.stockBefore = Stocks]
    /\ UNCHANGED <<products, sales, saleItems, nextSaleId>>
    /\ Track(p)
    /\ UNCHANGED <<repairOrders, users>>

\* lines 40-71: the batch lookup, the stock check and the total
CreateFindMany(p) ==
    /\ pc[p] = "cs_findMany"
    /\ LET items == req[p].dto.items
       IN  IF ProductsMissing(items)
             THEN Finish(p, "createSale", InvalidInputProducts, NoSale, 0, <<>>)
           ELSE IF FirstShort(items) # 0
             THEN Finish(p, "createSale", InsufficientStock, NoSale, FirstShort(items),
                         ShortInfo(items))
           ELSE /\ Goto(p, "cs_create")
                /\ loc' = [loc EXCEPT ![p].items = Priced(items),
                                       ![p].totalAmount = TotalAmount(Priced(items))]
                /\ UNCHANGED req
    /\ snap' = [snap EXCEPT !.short = IF ProductsMissing(req[p].dto.items) THEN 0
                                       ELSE ShortCount(req[p].dto.items)]
    /\ UNCHANGED <<products, sales, saleItems, nextSaleId>>
    /\ Track(p)
    /\ UNCHANGED <<repairOrders, users>>

\* the foreign keys of the inserted Sale and SaleItem rows (Sale_userId_fkey,
\* Sale_customerId_fkey, SaleItem_productId_fkey)
InsertAccepted(p) ==
    /\ req[p].userId \in UserIds
    /\ FalsyStr(req[p].dto.customerId) \/ req[p].dto.customerId \in CustomerIds
    /\ \A k \in 1..Len(loc[p].items) : loc[p].items[k].productId \in DOMAIN products

\* lines 74-96: the transaction opens; prisma.sale.create with its items, on
\* the day `now` (createdAt @default(now()))
CreateInsert(p, now) ==
    /\ pc[p] = "cs_create"
    /\ IF InsertAccepted(p)
          THEN /\ Goto(p, "cs_decrement")
               /\ loc' = [loc EXCEPT ![p].saleId = nextSaleId, ![p].i = 1,
                                      ![p].createdAt = now]
               /\ nextSaleId' = nextSaleId + 1
               /\ UNCHANGED <<products, sales, saleItems, req>>
          ELSE /\ Finish(p, "createSale", Failed, NoSale, 0, <<>>)
               /\ SetDb(AfterRollback(p))
               /\ UNCHANGED nextSaleId
    /\ UNCHANGED snap
    /\ Track(p)
    /\ UNCHANGED <<repairOrders, users>>

\* lines 99-108: prisma.product.update of item loc.i, which waits for the row
\* lock and throws when no row matches
CreateDecrement(p) ==
    /\ pc[p] = "cs_decrement"
    /\ LET item == loc[p].items[loc[p].i]
       IN  /\ ~LockedByOther(p, item.productId)
           /\ IF item.productId \notin DOMAIN products
                 THEN /\ Finish(p, "createSale", Failed, loc[p].saleId, loc[p].i, <<>>)
                      /\ SetDb(AfterRollback(p))
                 ELSE /\ loc' = [loc EXCEPT ![p].i = @ + 1]
                      /\ Goto(p, IF loc[p].i = Len(loc[p].items)
                                 THEN "cs_commit" ELSE "cs_decrement")
                      /\ UNCHANGED <<products, sales, saleItems, req>>
    /\ UNCHANGED <<nextSaleId, snap>>
    /\ Track(p)
    /\ UNCHANGED <<repairOrders, users>>

\* lines 110-131: the callback returns, the transaction commits, the sale is returned
CreateCommit(p) ==
    /\ pc[p] = "cs_commit"
    /\ SetDb(AfterCommit(p))
    /\ Finish(p, "createSale", Ok, loc[p].saleId, 0, <<>>)
    /\ snap' = [snap EXCEPT !.saleId = loc[p].saleId]
    /\ UNCHANGED nextSaleId
    /\ Track(p)
    /\ UNCHANGED <<repairOrders, users>>

(***************************************************************************)
(* A transaction that waits for a row lock can be ended by the storage     *)
(* layer (deadlock detection, or the time limit of the interactive         *)
(* transaction): the statement throws and the transaction rolls back.      *)
(* create wraps the error (lines 132-137), remove wraps it (398-400).      *)
(***************************************************************************)
TxAbort(p) ==
    /\ pc[p] \in {"cs_decrement", "ds_increment"}
    /\ LockedByOther(p, loc[p].items[loc[p].i].productId)
    /\ Finish(p, req[p].op, Failed,
              IF req[p].op = "createSale" THEN loc[p].saleId ELSE req[p].saleId, loc[p].i, <<>>)
    /\ SetDb(AfterRollback(p))
    /\ UNCHANGED <<nextSaleId, snap>>
    /\ Track(p)
    /\ UNCHANGED <<repairOrders, users>>

(***************************************************************************)
(* SalesService.remove                                                     *)
(***************************************************************************)
\* lines 367-369: the call and the lookup of the sale
DeleteFind(p, id) ==
    /\ pc[p] = "idle"
    /\ IF ~SaleFound(id)
          THEN Finish(p, "deleteSale", NotFoundSale, id, 0, <<>>)
          ELSE /\ Goto(p, IF SaleItemsOf(id) = <<>> THEN "ds_deleteItems" ELSE "ds_increment")
               /\ req' = [req EXCEPT ![p] = [NoReq EXCEPT !.op = "deleteSale", !.saleId = id]]
               /\ loc' = [loc EXCEPT ![p] = [NoLoc EXCEPT !.items = SaleItemsOf(id), !.i = 1]]
    /\ snap' = IF id = snap.saleId /\ ~snap.deleting
               THEN [snap EXCEPT !.deleting = TRUE] ELSE NoSnap
    /\ UNCHANGED <<products, sales, saleItems, nextSaleId>>
    /\ Track(p)
    /\ UNCHANGED <<repairOrders, users>>

\* lines 375-384: prisma.product.update of item loc.i, which waits for the row
\* lock and throws when no row matches
DeleteIncrement(p) ==
    /\ pc[p] = "ds_increment"
    /\ LET item == loc[p].items[loc[p].i]
       IN  /\ ~LockedByOther(p, item.productId)
           /\ IF item.productId \notin DOMAIN products
                 THEN /\ Finish(p, "deleteSale", Failed, req[p].saleId, loc[p].i, <<>>)
                      /\ SetDb(AfterRollback(p))
                 ELSE /\ loc' = [loc EXCEPT ![p].i = @ + 1]
                      /\ Goto(p, IF loc[p].i = Len(loc[p].items)
                                 THEN "ds_deleteItems" ELSE "ds_increment")
                      /\ UNCHANGED <<products, sales, saleItems, req>>
    /\ UNCHANGED <<nextSaleId, snap>>
    /\ Track(p)
    /\ UNCHANGED <<repairOrders, users>>

\* lines 387-389: prisma.saleItem.deleteMany({saleId: id})
DeleteItems(p) ==
    /\ pc[p] = "ds_deleteItems"
    /\ Goto(p, "ds_deleteSale")
    /\ UNCHANGED <<products, sales, saleItems, nextSaleId, req, loc, snap>>
    /\ Track(p)
    /\ UNCHANGED <<repairOrders, users>>

\* a delete that is content with no row to delete, as deleteMany is
DeleteMisses_Never(id) == FALSE

\* lines 392-394: prisma.sale.delete({where: {id}}) finds no row to delete
DeleteMisses(id) == id \notin DOMAIN sales

\* lines 392-394: prisma.sale.delete({id}), which throws when no row matches
DeleteSaleRow(p) ==
    /\ pc[p] = "ds_deleteSale"
    /\ IF ~DeleteMisses(req[p].saleId)
          THEN /\ Goto(p, "ds_commit")
               /\ UNCHANGED <<products, sales, saleItems, req, loc>>
          ELSE /\ Finish(p, "deleteSale", Failed, req[p].saleId, loc[p].i, <<>>)
               /\ SetDb(AfterRollback(p))
    /\ UNCHANGED <<nextSaleId, snap>>
    /\ Track(p)
    /\ UNCHANGED <<repairOrders, users>>

\* lines 395-397: the callback returns and the transaction commits
DeleteCommit(p) ==
    /\ pc[p] = "ds_commit"
    /\ SetDb(AfterCommit(p))
    /\ Finish(p, "deleteSale", Ok, req[p].saleId, 0, <<>>)
    /\ UNCHANGED <<nextSaleId, snap>>
    /\ Track(p)
    /\ UNCHANGED <<repairOrders, users>>

(***************************************************************************)
(* SalesService.update                                                     *)
(***************************************************************************)
\* lines 301-321: findOne, the items check and the customer lookup
UpdateFind(p, id, dto) ==
    /\ pc[p] = "idle"
    /\ IF ~SaleFound(id)
          THEN Finish(p, "updateSale", NotFoundSale, id, 0, <<>>)
       ELSE IF ItemsGiven(dto)
          THEN Finish(p, "updateSale", InvalidInputItems, id, 0, <<>>)
       ELSE IF ~FalsyStr(dto.customerId) /\ ~CustomerFound(dto.customerId)
          THEN Finish(p, "updateSale", NotFoundCustomer, id, 0, <<>>)
       ELSE /\ Goto(p, "us_update")
            /\ req' = [req EXCEPT ![p] = [NoReq EXCEPT !.op = "updateSale",
                                            !.saleId = id, !.dto = dto]]
            /\ loc' = [loc EXCEPT ![p] = NoLoc]
    /\ snap' = NoSnap
    /\ UNCHANGED <<products, sales, saleItems, nextSaleId>>
    /\ Track(p)
    /\ UNCHANGED <<repairOrders, users>>

\* an update that also recomputes the total from the items of the patch
UpdateData_Retotal(sale, dto) ==
    [sale EXCEPT
        !.customerId = IF dto.customerId = Undef THEN @ ELSE dto.customerId,
        !.customerName = IF dto.customerName = Undef THEN @ ELSE dto.customerName,
        !.paymentMethod = IF dto.paymentMethod = Undef THEN @ ELSE dto.paymentMethod,
        !.totalAmount = TotalAmount(dto.items)]

\* lines 326-330: the data of prisma.sale.update; an undefined field is left as it is
UpdateData(sale, dto) ==
    [sale EXCEPT
        !.customerId = IF dto.customerId = Undef THEN @ ELSE dto.customerId,
        !.customerName = IF dto.customerName = Undef THEN @ ELSE dto.customerName,
        !.paymentMethod = IF dto.paymentMethod = Undef THEN @ ELSE dto.paymentMethod]

\* the Sale row is being deleted by an open transaction: the UPDATE waits for it
SaleRowLocked(p, id) == \E r \in Procs \ {p} : pc[r] = "ds_commit" /\ req[r].saleId = id

\* lines 324-353: prisma.sale.update, which throws when no row matches
UpdateWrite(p) ==
    /\ pc[p] = "us_update"
    /\ ~SaleRowLocked(p, req[p].saleId)
    /\ IF req[p].saleId \in DOMAIN sales
          THEN /\ sales' = [sales EXCEPT ![req[p].saleId] = UpdateData(@, req[p].dto)]
               /\ Finish(p, "updateSale", Ok, req[p].saleId, 0, <<>>)
          ELSE /\ UNCHANGED sales
               /\ Finish(p, "updateSale", Failed, req[p].saleId, 0, <<>>)
    /\ UNCHANGED <<products, saleItems, nextSaleId, snap>>
    /\ Track(p)
    /\ UNCHANGED <<repairOrders, users>>

(***************************************************************************)
(* ProductsService.remove                                                  *)
(***************************************************************************)
\* lines 260-262: the call and findOne
RemoveFind(p, id) ==
    /\ pc[p] = "idle"
    /\ IF id \notin DOMAIN products
          THEN Finish(p, "removeProduct", NotFoundProduct, NoSale, 0, <<>>)
          ELSE /\ Goto(p, "pr_count")
               /\ req' = [req EXCEPT ![p] = [NoReq EXCEPT !.op = "removeProduct",
                                               !.productId = id]]
               /\ loc' = [loc EXCEPT ![p] = NoLoc]
    /\ snap' = NoSnap
    /\ UNCHANGED <<products, sales, saleItems, nextSaleId>>
    /\ Track(p)
    /\ UNCHANGED <<repairOrders, users>>

\* _count.saleItems of the product
SaleItemCount_None(id) == 0

SaleItemCount(id) == Cardinality({r \in saleItems : r.productId = id})

\* _count.repairOrderItems of the product
RepairItemCount(id) ==
    Cardinality({<<o, k>> \in (DOMAIN repairOrders) \X (1..MaxItems) :
                    /\ k <= Len(repairOrders[o].items)
                    /\ repairOrders[o].items[k].productId = id})

\* RepairOrderItem_productId_fkey ON DELETE SET NULL: the items of the repair
\* orders after the DELETE of product id
ProductSetNull(id) ==
    [o \in DOMAIN repairOrders |->
        [repairOrders[o] EXCEPT !.items =
            [k \in 1..Len(repairOrders[o].items) |->
                IF repairOrders[o].items[k].productId = id
                THEN [repairOrders[o].items[k] EXCEPT !.productId = Null]
                ELSE repairOrders[o].items[k]]]]

\* lines 266-276: findUnique with the relation counts; a missing row is null,
\* reading _count of it throws and line 299 wraps the error
RemoveCount(p) ==
    /\ pc[p] = "pr_count"
    /\ IF req[p].productId \in DOMAIN products
          THEN /\ Goto(p, "pr_write")
               /\ loc' = [loc EXCEPT ![p].refs = RepairItemCount(req[p].productId)
                                                  + SaleItemCount(req[p].productId)]
               /\ UNCHANGED req
          ELSE Finish(p, "removeProduct", Failed, NoSale, 0, <<>>)
    /\ UNCHANGED <<products, sales, saleItems, nextSaleId, snap>>
    /\ Track(p)
    /\ UNCHANGED <<repairOrders, users>>

\* lines 278-296: mark the product inactive when the counts found a reference,
\* delete it otherwise; the DELETE is refused while a SaleItem row references
\* the product (SaleItem_productId_fkey ON DELETE RESTRICT), waits for the
\* locks of the row, and clears the product of the RepairOrderItem rows that
\* reference it
RemoveWrite(p) ==
    /\ pc[p] = "pr_write"
    /\ LET id == req[p].productId
       IN  /\ ~LockedByOther(p, id)
           /\ loc[p].refs = 0 => ~KeyLockedByOther(p, id)
           /\ IF id \notin DOMAIN products
                 THEN /\ Finish(p, "removeProduct", Failed, NoSale, 0, <<>>)
                      /\ UNCHANGED <<products, repairOrders>>
               ELSE IF loc[p].refs > 0
                 THEN /\ products' = [products EXCEPT ![id].isActive = FALSE]
                      /\ Finish(p, "removeProduct", Ok, NoSale, 0, <<>>)
                      /\ UNCHANGED repairOrders
               ELSE IF SaleItemCount(id) > 0
                 THEN /\ Finish(p, "removeProduct", Failed, NoSale, 0, <<>>)
                      /\ UNCHANGED <<products, repairOrders>>
               ELSE /\ products' = [q \in DOMAIN products \ {id} |-> products[q]]
                    /\ repairOrders' = ProductSetNull(id)
                    /\ Finish(p, "removeProduct", Ok, NoSale, 0, <<>>)
    /\ UNCHANGED <<sales, saleItems, nextSaleId, snap>>
    /\ Track(p)
    /\ UNCHANGED users

(***************************************************************************)
(* ProductsService.update and ProductsService.updateStock                  *)
(***************************************************************************)
\* products.service.ts lines 176-182: the call and findOne; a request that
\* carries a name goes on to the lookup of that name
ProductUpdateFind(p, id, dto) ==
    /\ pc[p] = "idle"
    /\ IF id \notin DOMAIN products
          THEN Finish(p, "updateProduct", NotFoundProduct, NoSale, 0, <<>>)
          ELSE /\ Goto(p, IF FalsyStr(dto.name) THEN "pu_write" ELSE "pu_check")
               /\ req' = [req EXCEPT ![p] = [NoReq EXCEPT !.op = "updateProduct",
                                               !.productId = id, !.patch = dto]]
               /\ loc' = [loc EXCEPT ![p] = NoLoc]
    /\ snap' = NoSnap
    /\ UNCHANGED <<products, sales, saleItems, nextSaleId>>
    /\ Track(p)
    /\ UNCHANGED <<repairOrders, users>>

\* an update that writes a stock of zero when the request carries none
ProductData_ZeroStock(product, dto) ==
    [product EXCEPT
        !.name = IF dto.name = Undef THEN @ ELSE dto.name,
        !.price = IF dto.price = <<>> THEN @ ELSE dto.price[1],
        !.stock = IF dto.stock = <<>> THEN 0 ELSE dto.stock[1]]

\* lines 198-209: the data of prisma.product.update; an undefined field is
\* left as it is
ProductData(product, dto) ==
    [product EXCEPT
        !.name = IF dto.name = Undef THEN @ ELSE dto.name,
        !.price = IF dto.price = <<>> THEN @ ELSE dto.price[1],
        !.stock = IF dto.stock = <<>> THEN @ ELSE dto.stock[1]]

\* lines 196-221: prisma.product.update, which waits for the row lock and
\* throws when no row matches
ProductUpdateWrite(p) ==
    /\ pc[p] = "pu_write"
    /\ LET id == req[p].productId
       IN  /\ ~LockedByOther(p, id)
           /\ IF id \in DOMAIN products
                 THEN /\ products' = [products EXCEPT ![id] = ProductData(@, req[p].patch)]
                      /\ Finish(p, "updateProduct", Ok, NoSale, 0, <<>>)
                 ELSE /\ UNCHANGED products
                      /\ Finish(p, "updateProduct", Failed, NoSale, 0, <<>>)
    /\ UNCHANGED <<sales, saleItems, nextSaleId, snap>>
    /\ Track(p)
    /\ UNCHANGED <<repairOrders, users>>

\* lines 230-236: the call, findOne and the check that the stock stays at
\* zero or above
StockFind(p, id, quantity) ==
    /\ pc[p] = "idle"
    /\ IF id \notin DOMAIN products
          THEN Finish(p, "updateStock", NotFoundProduct, NoSale, 0, <<>>)
       ELSE IF products[id].stock + quantity < 0
          THEN Finish(p, "updateStock", InvalidInputStock, NoSale, 0, <<>>)
       ELSE /\ Goto(p, "st_write")
            /\ req' = [req EXCEPT ![p] = [NoReq EXCEPT !.op = "updateStock",
                                            !.productId = id, !.quantity = quantity]]
            /\ loc' = [loc EXCEPT ![p] = NoLoc]
    /\ snap' = NoSnap
    /\ UNCHANGED <<products, sales, saleItems, nextSaleId>>
    /\ Track(p)
    /\ UNCHANGED <<repairOrders, users>>

\* lines 238-245: prisma.product.update with stock: { increment: quantity }
StockWrite(p) ==
    /\ pc[p] = "st_write"
    /\ LET id == req[p].productId
       IN  /\ ~LockedByOther(p, id)
           /\ IF id \in DOMAIN products
                 THEN /\ products' = [products EXCEPT
                                        ![id].stock = Increment(@, req[p].quantity)]
                      /\ Finish(p, "updateStock", Ok, NoSale, 0, <<>>)
                 ELSE /\ UNCHANGED products
                      /\ Finish(p, "updateStock", Failed, NoSale, 0, <<>>)
    /\ UNCHANGED <<sales, saleItems, nextSaleId, snap>>
    /\ Track(p)
    /\ UNCHANGED <<repairOrders, users>>

(***************************************************************************)
(* ProductsService.create, the name check of ProductsService.update, and   *)
(* ProductsService.importProducts.  Product.name has no unique index in    *)
(* schema.prisma: the name checks of the service are all there is.         *)
(***************************************************************************)
NewProductIds == {"p3", "p4", "p5"}
Conflict == "Conflict: Ya existe un producto con el nombre"

\* product.findFirst({where: {name}}), and with id: {not: id} in update,
\* returns a row
NameTaken(name, id) == \E q \in DOMAIN products \ {id} : products[q].name = name

\* the rows that the call of p may still insert
RowsLeft(p) ==
    IF pc[p] = "pc_create" THEN 1
    ELSE IF pc[p] \in {"im_find", "im_create"} THEN Len(loc[p].items) - loc[p].i + 1
    ELSE 0

RECURSIVE RowsLeftOf(_)
RowsLeftOf(S) ==
    IF S = {} THEN 0
    ELSE LET p == CHOOSE x \in S : TRUE IN RowsLeft(p) + RowsLeftOf(S \ {p})

PendingRows == RowsLeftOf(Procs)

FreshProductId == CHOOSE id \in NewProductIds : id \notin DOMAIN products

\* the data of product.create (lines 38-52, 513-524); price and stock of the
\* new row do not matter here
NewProduct(name) == [name |-> name, stock |-> 0, price |-> 1, isActive |-> TRUE]

\* lines 24-35: the call and the lookup of the name
ProductCreateFind(p, name) ==
    /\ pc[p] = "idle"
    /\ Cardinality(DOMAIN products \cap NewProductIds) + PendingRows
          < Cardinality(NewProductIds)
    /\ IF NameTaken(name, NoProduct)
          THEN Finish(p, "createProduct", Conflict, NoSale, 0, <<>>)
          ELSE /\ Goto(p, "pc_create")
               /\ req' = [req EXCEPT ![p] = [NoReq EXCEPT !.op = "createProduct",
                                               !.patch = [NoPatch EXCEPT !.name = name]]]
               /\ loc' = [loc EXCEPT ![p] = NoLoc]
    /\ snap' = NoSnap
    /\ UNCHANGED <<products, sales, saleItems, nextSaleId>>
    /\ Track(p)
    /\ UNCHANGED <<repairOrders, users>>

\* lines 38-57: prisma.product.create
ProductCreateInsert(p) ==
    /\ pc[p] = "pc_create"
    /\ products' = (FreshProductId :> NewProduct(req[p].patch.name)) @@ products
    /\ Finish(p, "createProduct", Ok, NoSale, 0, <<>>)
    /\ UNCHANGED <<sales, saleItems, nextSaleId, snap>>
    /\ Track(p)
    /\ UNCHANGED <<repairOrders, users>>

\* lines 182-193: the lookup of another product with the new name
ProductUpdateCheck(p) ==
    /\ pc[p] = "pu_check"
    /\ IF NameTaken(req[p].patch.name, req[p].productId)
          THEN Finish(p, "updateProduct", Conflict, NoSale, 0, <<>>)
          ELSE Goto(p, "pu_write") /\ UNCHANGED <<req, loc>>
    /\ UNCHANGED <<products, sales, saleItems, nextSaleId, snap>>
    /\ Track(p)
    /\ UNCHANGED <<repairOrders, users>>

\* lines 545-547 of validateProductData: the name of the row is missing
NameMissing(name) == FalsyStr(name)

\* lines 328-346 and 489-493: the file is read and the loop over its rows
\* starts; a row is the name it carries
ImportBegin(p, rows) ==
    /\ pc[p] = "idle"
    /\ Cardinality(DOMAIN products \cap NewProductIds) + PendingRows + Len(rows)
          <= Cardinality(NewProductIds)
    /\ Goto(p, "im_find")
    /\ req' = [req EXCEPT ![p] = [NoReq EXCEPT !.op = "importProducts"]]
    /\ loc' = [loc EXCEPT ![p] = [NoLoc EXCEPT !.items = rows, !.i = 1]]
    /\ snap' = NoSnap
    /\ UNCHANGED <<products, sales, saleItems, nextSaleId>>
    /\ Track(p)
    /\ UNCHANGED <<repairOrders, users>>

\* the loop goes on to its next row, or saveImportedProducts returns
\* { successCount, errors } (lines 493, 534-537, 347-353)
ImportAdvance(p, imported, errors) ==
    IF loc[p].i = Len(loc[p].items)
    THEN Finish(p, "importProducts", Ok, NoSale, imported, errors)
    ELSE /\ loc' = [loc EXCEPT ![p].i = @ + 1, ![p].imported = imported,
                              ![p].errors = errors]
         /\ Goto(p, "im_find")
         /\ UNCHANGED req

\* lines 496-510: the row is validated and its name looked up; a row that is
\* not valid or whose name is in use is reported with its line of the file
ImportFind(p) ==
    /\ pc[p] = "im_find"
    /\ LET name == loc[p].items[loc[p].i]
       IN  IF NameMissing(name) \/ NameTaken(name, NoProduct)
           THEN ImportAdvance(p, loc[p].imported, Append(loc[p].errors, loc[p].i + 1))
           ELSE Goto(p, "im_create") /\ UNCHANGED <<req, loc>>
    /\ UNCHANGED <<products, sales, saleItems, nextSaleId, snap>>
    /\ Track(p)
    /\ UNCHANGED <<repairOrders, users>>

\* lines 513-526: prisma.product.create of the row
ImportCreate(p) ==
    /\ pc[p] = "im_create"
    /\ products' = (FreshProductId :> NewProduct(loc[p].items[loc[p].i])) @@ products
    /\ ImportAdvance(p, loc[p].imported + 1, loc[p].errors)
    /\ UNCHANGED <<sales, saleItems, nextSaleId, snap>>
    /\ Track(p)
    /\ UNCHANGED <<repairOrders, users>>

(***************************************************************************)
(* RepairOrdersService (src/unnamed/part_011; part_012 is the same service *)
(* with the lookup of the technician restored and English messages).  The  *)
(* transaction of create and of update is one step: its statements touch   *)
(* the rows of one order.                                                  *)
(***************************************************************************)
MaxOrders == 1
OrderIds == 1..MaxOrders

\* enum RepairOrderStatus, as far as the service tells its values apart
Received == "RECEIVED"
InProgress == "IN_PROGRESS"
Completed == "COMPLETED"

NotFoundOrder == "NotFound: Orden de reparacion"

\* CreateRepairOrderDto and UpdateRepairOrderDto (PartialType): optional
\* numbers and strings as in NoPatch; hasItems tells an absent items array
NoOrderDto == [customerId |-> Undef, status |-> Undef, initialReviewCost |-> <<>>,
               items |-> <<>>, hasItems |-> FALSE]

\* (item.price || 0) of an optional price
PriceOrZero(price) == IF FalsyNum(price) THEN 0 ELSE price[1]

\* lines 60-63, 256-259: items.reduce((sum, item) => sum + (item.price || 0)
\* * item.quantity, 0)
ItemsAmount(items) ==
    SumSeq([k \in 1..Len(items) |-> PriceOrZero(items[k].price) * items[k].quantity])

\* lines 77-87, 276-286: the rows of items: { create: [...] }
OrderItems(items) ==
    [k \in 1..Len(items) |->
        [productId |-> IF items[k].productId = Undef THEN Null ELSE items[k].productId,
         quantity |-> items[k].quantity,
         price |-> PriceOrZero(items[k].price)]]

\* RepairOrderItem_productId_fkey: the products the items name exist
ProductsResolve(items) ==
    \A k \in 1..Len(items) :
        items[k].productId = Undef \/ items[k].productId \in DOMAIN products

\* lines 68-75: the data of repairOrder.create; endDate is not among them
NewOrder(dto) ==
    [status |-> IF FalsyStr(dto.status) THEN Received ELSE dto.status,
     endDate |-> NoDate,
     initialReviewCost |-> PriceOrZero(dto.initialReviewCost),
     totalCost |-> PriceOrZero(dto.initialReviewCost) + ItemsAmount(dto.items),
     items |-> OrderItems(dto.items)]

\* lines 20-47: the call and the lookup of the customer
RepairCreateFind(p, dto) ==
    /\ pc[p] = "idle"
    /\ Cardinality(DOMAIN repairOrders)
          + Cardinality({q \in Procs : pc[q] = "rc_create"}) < MaxOrders
    /\ IF ~CustomerFound(dto.customerId)
          THEN Finish(p, "createRepairOrder", NotFoundCustomer, NoSale, 0, <<>>)
          ELSE /\ Goto(p, "rc_create")
               /\ req' = [req EXCEPT ![p] = [NoReq EXCEPT !.op = "createRepairOrder",
                                               !.dto = dto]]
               /\ loc' = [loc EXCEPT ![p] = NoLoc]
    /\ snap' = NoSnap
    /\ UNCHANGED <<products, sales, saleItems, nextSaleId, repairOrders, users>>
    /\ Track(p)

\* lines 59-99: the total and the transaction that inserts the order with its
\* items; an error of the insert is wrapped (line 98)
RepairCreateInsert(p) ==
    /\ pc[p] = "rc_create"
    /\ LET id == Cardinality(DOMAIN repairOrders) + 1
       IN  IF ProductsResolve(req[p].dto.items)
           THEN /\ repairOrders' = (id :> NewOrder(req[p].dto)) @@ repairOrders
                /\ Finish(p, "createRepairOrder", Ok, NoSale, id, <<>>)
           ELSE /\ UNCHANGED repairOrders
                /\ Finish(p, "createRepairOrder", Failed, NoSale, 0, <<>>)
    /\ UNCHANGED <<products, sales, saleItems, nextSaleId, users, snap>>
    /\ Track(p)

\* lines 219-243: the call, findOne and the lookup of the customer of the patch
RepairUpdateFind(p, id, dto) ==
    /\ pc[p] = "idle"
    /\ IF id \notin DOMAIN repairOrders
          THEN Finish(p, "updateRepairOrder", NotFoundOrder, NoSale, id, <<>>)
       ELSE IF ~FalsyStr(dto.customerId) /\ ~CustomerFound(dto.customerId)
          THEN Finish(p, "updateRepairOrder", NotFoundCustomer, NoSale, id, <<>>)
       ELSE /\ Goto(p, "ru_write")
            /\ req' = [req EXCEPT ![p] = [NoReq EXCEPT !.op = "updateRepairOrder",
                                            !.saleId = id, !.dto = dto]]
            /\ loc' = [loc EXCEPT ![p] = NoLoc]
    /\ snap' = NoSnap
    /\ UNCHANGED <<products, sales, saleItems, nextSaleId, repairOrders, users>>
    /\ Track(p)

\* lines 272-274, 305-307, 369: endDate is new Date() when the status of the
\* request is COMPLETED, and undefined, which leaves the column, otherwise
EndDate(order, status, now) == IF status = Completed THEN now ELSE order.endDate

\* lines 249-294: the patch carries items: they replace the items of the
\* order, and totalCost is the amount of the new items
OrderWithItems(order, dto, now) ==
    [order EXCEPT
        !.status = IF dto.status = Undef THEN @ ELSE dto.status,
        !.totalCost = ItemsAmount(dto.items),
        !.endDate = EndDate(order, dto.status, now),
        !.items = OrderItems(dto.items)]

\* lines 295-315: the patch carries no items
OrderWithoutItems(order, dto, now) ==
    [order EXCEPT
        !.status = IF dto.status = Undef THEN @ ELSE dto.status,
        !.endDate = EndDate(order, dto.status, now)]

\* lines 245-321: the transaction of update, on the day `now`
RepairUpdateWrite(p, now) ==
    /\ pc[p] = "ru_write"
    /\ LET id == req[p].saleId
           dto == req[p].dto
       IN  IF ItemsGiven(dto) /\ Len(dto.items) > 0
           THEN IF ProductsResolve(dto.items)
                THEN /\ repairOrders' = [repairOrders EXCEPT
                                            ![id] = OrderWithItems(@, dto, now)]
                     /\ Finish(p, "updateRepairOrder", Ok, NoSale, id, <<>>)
                ELSE /\ UNCHANGED repairOrders
                     /\ Finish(p, "updateRepairOrder", Failed, NoSale, id, <<>>)
           ELSE /\ repairOrders' = [repairOrders EXCEPT
                                      ![id] = OrderWithoutItems(@, dto, now)]
                /\ Finish(p, "updateRepairOrder", Ok, NoSale, id, <<>>)
    /\ UNCHANGED <<products, sales, saleItems, nextSaleId, users, snap>>
    /\ Track(p)

\* lines 359-361: the call and findOne
RepairStatusFind(p, id, status) ==
    /\ pc[p] = "idle"
    /\ IF id \notin DOMAIN repairOrders
          THEN Finish(p, "updateStatus", NotFoundOrder, NoSale, id, <<>>)
          ELSE /\ Goto(p, "rs_write")
               /\ req' = [req EXCEPT ![p] = [NoReq EXCEPT !.op = "updateStatus",
                              !.saleId = id, !.dto = [NoOrderDto EXCEPT !.status = status]]]
               /\ loc' = [loc EXCEPT ![p] = NoLoc]
    /\ snap' = NoSnap
    /\ UNCHANGED <<products, sales, saleItems, nextSaleId, repairOrders, users>>
    /\ Track(p)

\* lines 363-379: repairOrder.update of the status, on the day `now`
RepairStatusWrite(p, now) ==
    /\ pc[p] = "rs_write"
    /\ LET order == repairOrders[req[p].saleId]
       IN  repairOrders' = [repairOrders EXCEPT ![req[p].saleId] =
               [order EXCEPT !.status = req[p].dto.status,
                             !.endDate = EndDate(order, req[p].dto.status, now)]]
    /\ Finish(p, "updateStatus", Ok, NoSale, req[p].saleId, <<>>)
    /\ UNCHANGED <<products, sales, saleItems, nextSaleId, users, snap>>
    /\ Track(p)

(***************************************************************************)
(* AuthService.register (src/unnamed/part_001) and UsersService.create     *)
(* (src/src/users/users.service.ts), which it calls.                       *)
(***************************************************************************)
EmailInUse == "Conflict: Email already in use"
\* UsersService.create catches nothing: a rejected insert leaves as it is
Unhandled == "Unhandled: Unique constraint failed on the fields: (email)"

\* part_001 lines 72-77: { ...registerDto, role: Role.ADMIN, profileImage: '',
\* isActive: true }; the keys after the spread win over those of the request
RegisterData(dto) == [email |-> dto.email, role |-> Admin, isActive |-> TRUE]

\* part_001 lines 64-69: the call and usersService.findByEmail
RegisterFind(p, dto) ==
    /\ pc[p] = "idle"
    /\ IF dto.email \in DOMAIN users
          THEN Finish(p, "register", EmailInUse, NoSale, 0, <<>>)
          ELSE /\ Goto(p, "uc_find")
               /\ req' = [req EXCEPT ![p] = [NoReq EXCEPT !.op = "register",
                                               !.dto = RegisterData(dto)]]
               /\ loc' = [loc EXCEPT ![p] = NoLoc]
    /\ snap' = NoSnap
    /\ UNCHANGED <<products, sales, saleItems, nextSaleId, repairOrders, users>>
    /\ Track(p)

\* users.service.ts lines 31-39: findUnique by the email
UsersCreateFind(p) ==
    /\ pc[p] = "uc_find"
    /\ IF req[p].dto.email \in DOMAIN users
          THEN Finish(p, "register", EmailInUse, NoSale, 0, <<>>)
          ELSE Goto(p, "uc_hash") /\ UNCHANGED <<req, loc>>
    /\ UNCHANGED <<products, sales, saleItems, nextSaleId, repairOrders, users, snap>>
    /\ Track(p)

\* users.service.ts line 41: await bcrypt.hash
UsersCreateHash(p) ==
    /\ pc[p] = "uc_hash"
    /\ Goto(p, "uc_insert")
    /\ UNCHANGED <<products, sales, saleItems, nextSaleId, repairOrders, users, req, loc,
                   snap>>
    /\ Track(p)

\* users.service.ts lines 43-51: user.create with the data it was given; the
\* column email is unique
UsersCreateInsert(p) ==
    /\ pc[p] = "uc_insert"
    /\ LET data == req[p].dto
       IN  IF data.email \in DOMAIN users
           THEN /\ UNCHANGED users
                /\ Finish(p, "register", Unhandled, NoSale, 0, <<>>)
           ELSE /\ users' = (data.email :> [role |-> data.role,
                                            isActive |-> data.isActive]) @@ users
                /\ Finish(p, "register", Ok, NoSale, 0, <<>>)
    /\ UNCHANGED <<products, sales, saleItems, nextSaleId, repairOrders, snap>>
    /\ Track(p)

(***************************************************************************)
(* JavaScript numbers.  totalAmount is a Float column and the invoice      *)
(* divides and subtracts it as IEEE 754 doubles: a double is m * 2^e with  *)
(* a significand m of Precision bits, every operation rounding its exact   *)
(* result to the nearest double, ties to the even significand.  The        *)
(* significand does not fit an integer of 32 bits: it is                   *)
(* a natural number written in limbs, least significant first, no leading  *)
(* zero limb.  The amounts here are far from overflow and underflow.       *)
(***************************************************************************)
\* the bits of the significand of a double
Precision == 53

\* 1.18 as the quotient of two whole numbers
TaxNumerator == 118
TaxDenominator == 100

LimbBits == 15
LimbBase == 2^LimbBits

RECURSIVE Norm(_)
Norm(a) == IF a # <<>> /\ a[Len(a)] = 0 THEN Norm(SubSeq(a, 1, Len(a) - 1)) ELSE a

RECURSIVE FromNat(_)
FromNat(n) == IF n = 0 THEN <<>> ELSE <<n % LimbBase>> \o FromNat(n \div LimbBase)

\* -1, 0 or 1 as a < b, a = b or a > b
RECURSIVE Cmp(_, _)
Cmp(a, b) ==
    IF Len(a) # Len(b) THEN (IF Len(a) < Len(b) THEN -1 ELSE 1)
    ELSE IF a = <<>> THEN 0
    ELSE IF a[Len(a)] # b[Len(b)] THEN (IF a[Len(a)] < b[Len(b)] THEN -1 ELSE 1)
    ELSE Cmp(SubSeq(a, 1, Len(a) - 1), SubSeq(b, 1, Len(b) - 1))

Limb(a, i) == IF i <= Len(a) THEN a[i] ELSE 0

RECURSIVE AddFrom(_, _, _, _)
AddFrom(a, b, i, carry) ==
    IF i > Len(a) /\ i > Len(b)
    THEN (IF carry = 0 THEN <<>> ELSE <<carry>>)
    ELSE LET t == Limb(a, i) + Limb(b, i) + carry
         IN  <<t % LimbBase>> \o AddFrom(a, b, i + 1, t \div LimbBase)

Add(a, b) == AddFrom(a, b, 1, 0)

\* a - b for a >= b
RECURSIVE SubFrom(_, _, _, _)
SubFrom(a, b, i, borrow) ==
    IF i > Len(a) THEN <<>>
    ELSE LET t == a[i] - Limb(b, i) - borrow
         IN  <<IF t < 0 THEN t + LimbBase ELSE t>>
                 \o SubFrom(a, b, i + 1, IF t < 0 THEN 1 ELSE 0)

Sub(a, b) == Norm(SubFrom(a, b, 1, 0))

Odd(a) == a # <<>> /\ a[1] % 2 = 1

\* a * 2^n: whole limbs of zeros below, then a shift inside the limbs
ShiftLeft(a, n) ==
    LET limbs == n \div LimbBits
        f == 2^(n % LimbBits)
        wide == Append(a, 0)
        moved == [i \in 1..Len(wide) |->
                    ((wide[i] * f) % LimbBase)
                        + (IF i = 1 THEN 0 ELSE (wide[i - 1] * f) \div LimbBase)]
    IN  IF a = <<>> THEN <<>> ELSE [i \in 1..limbs |-> 0] \o Norm(moved)

\* a \div 2^n
ShiftRight(a, n) ==
    LET limbs == n \div LimbBits
        f == 2^(n % LimbBits)
        kept == SubSeq(a, limbs + 1, Len(a))
    IN  Norm([i \in 1..Len(kept) |->
                (kept[i] \div f)
                    + (IF i < Len(kept) THEN (kept[i + 1] % f) * (LimbBase \div f) ELSE 0)])

\* the number of bits of one limb
SmallBitLen(n) == CHOOSE b \in 0..LimbBits : n < 2^b /\ (b = 0 \/ n >= 2^(b - 1))

BitLen(a) == IF a = <<>> THEN 0 ELSE (Len(a) - 1) * LimbBits + SmallBitLen(a[Len(a)])

\* bit j of a, bit 1 the least significant
BitAt(a, j) ==
    IF j < 1 THEN 0
    ELSE (Limb(a, ((j - 1) \div LimbBits) + 1) \div (2^((j - 1) % LimbBits))) % 2

\* a * g for one limb g
MulSmall(a, g) ==
    Norm(Add([i \in 1..Len(a) |-> (a[i] * g) % LimbBase],
             <<0>> \o [i \in 1..Len(a) |-> (a[i] * g) \div LimbBase]))

\* Long division in limbs, by a divisor d whose top limb has its top bit set.
\* The next limb of the quotient of r by d, for r < d * LimbBase: the two top
\* limbs of r by the top limb of d say it within two above
Estimate(r, d) ==
    LET est == (Limb(r, Len(d) + 1) * LimbBase + Limb(r, Len(d))) \div d[Len(d)]
    IN  IF est >= LimbBase THEN LimbBase - 1 ELSE est

Fits(r, d, g) == g <= 0 \/ Cmp(MulSmall(d, g), r) <= 0

Corrected(r, d, est) ==
    IF Fits(r, d, est) THEN est ELSE IF Fits(r, d, est - 1) THEN est - 1 ELSE est - 2

\* The state of the division is <<quotient, remainder, limbs of the dividend
\* still to bring down>>; a step brings down limb st[3] of n
WithDigit(q, r, d, g, i) == <<Norm(<<g>> \o q), Sub(r, MulSmall(d, g)), i>>

DivLimb(q, r, d, i) == WithDigit(q, r, d, Corrected(r, d, Estimate(r, d)), i)

RECURSIVE LongDiv(_, _, _)
LongDiv(n, d, st) ==
    IF st[3] = 0 THEN <<st[1], st[2]>>
    ELSE LongDiv(n, d, DivLimb(st[1], Norm(<<n[st[3]]>> \o st[2]), d, st[3] - 1))

\* the shift that sets the top bit of the top limb of d
Normalizer(d) == (LimbBits - (BitLen(d) % LimbBits)) % LimbBits

\* the division of n by d begins with the top limbs of n, one fewer than d has
\* and so less than d, as the remainder
Begin(n, d) ==
    IF Len(n) < Len(d) THEN <<<<>>, n, 0>>
    ELSE <<<<>>, SubSeq(n, Len(n) - Len(d) + 2, Len(n)), Len(n) - Len(d) + 1>>

Divide(n, d) == LongDiv(n, d, Begin(n, d))

\* <<quotient, a multiple of the remainder>> of (a * 2^k) by d
DivMod(a, k, d) == Divide(ShiftLeft(a, k + Normalizer(d)), ShiftLeft(d, Normalizer(d)))

\* whether one of the n lowest bits of a is set
AnyBit(a, n) == \E j \in 1..n : BitAt(a, j) = 1

Zero == [m |-> <<>>, e |-> 0]

\* the double nearest to q * 2^e, where `inexact` tells that q was cut short
\* of the exact value; ties go to the even significand
Round(q, inexact, e) ==
    IF q = <<>> THEN Zero
    ELSE IF BitLen(q) <= Precision
    THEN [m |-> ShiftLeft(q, Precision - BitLen(q)), e |-> e - (Precision - BitLen(q))]
    ELSE LET n == BitLen(q) - Precision
             kept == ShiftRight(q, n)
             up == BitAt(q, n) = 1 /\ (inexact \/ AnyBit(q, n - 1) \/ Odd(kept))
             m == IF up THEN Add(kept, <<1>>) ELSE kept
         IN  IF BitLen(m) > Precision
             THEN [m |-> ShiftRight(m, 1), e |-> e + n + 1]
             ELSE [m |-> m, e |-> e + n]

\* a whole number as a double
FromInt(n) == Round(FromNat(n), FALSE, 0)

\* the double nearest to the quotient qr[1] with remainder qr[2], times 2^e
RoundDiv(qr, e) == Round(qr[1], qr[2] # <<>>, e)

\* x / y, for y # 0
FDiv(x, y) ==
    IF x.m = <<>> THEN Zero
    ELSE RoundDiv(DivMod(x.m, Precision + 2, y.m), x.e - y.e - (Precision + 2))

\* the significand of x at the exponent e <= x.e
AtExp(x, e) == ShiftLeft(x.m, x.e - e)

MinExp(x, y) == IF x.e < y.e THEN x.e ELSE y.e

\* x + y and x - y, for x >= y >= 0
FAdd(x, y) ==
    IF x.m = <<>> THEN y ELSE IF y.m = <<>> THEN x
    ELSE Round(Add(AtExp(x, MinExp(x, y)), AtExp(y, MinExp(x, y))), FALSE, MinExp(x, y))

FSub(x, y) ==
    IF y.m = <<>> THEN x
    ELSE Round(Sub(AtExp(x, MinExp(x, y)), AtExp(y, MinExp(x, y))), FALSE, MinExp(x, y))

\* the decimal literal n / d as a double
Literal(n, d) == FDiv(FromInt(n), FromInt(d))

(***************************************************************************)
(* SalesService.generateInvoice                                            *)
(***************************************************************************)
\* the decimal literal 1.18 of line 261
TaxFactor == Literal(TaxNumerator, TaxDenominator)

\* line 261: sale.totalAmount / 1.18
Subtotal(totalAmount) == FDiv(FromInt(totalAmount), TaxFactor)

\* a tax taken as 18% of the total
Tax_OnTotal(totalAmount, subtotal) == FDiv(FromInt(totalAmount * 18), FromInt(100))

\* line 262: sale.totalAmount - subtotal
Tax(totalAmount, subtotal) == FSub(FromInt(totalAmount), subtotal)

\* lines 288-290: the amounts of the invoice
Amounts(totalAmount, subtotal) ==
    [subtotal |-> subtotal, tax |-> Tax(totalAmount, subtotal), totalAmount |-> totalAmount]

\* the decimal digits of n, String(n)
RECURSIVE DigitsOf(_)
DigitsOf(n) == IF n < 10 THEN <<n>> ELSE Append(DigitsOf(n \div 10), n % 10)

\* padStart(2, '0')
RECURSIVE PadStart(_, _)
PadStart(s, n) == IF Len(s) >= n THEN s ELSE PadStart(<<0>> \o s, n)

\* a number that takes its date from the day of the request
InvoiceDate_Today(sale, today) == today

\* line 265: new Date(sale.createdAt)
InvoiceDate(sale, today) == sale.createdAt

\* the text of a Sale id (@default(uuid())): hexadecimal digits, the dashes of
\* the uuid left out; the sales of the model differ in the first group
IdText(id) == <<0, 0, 0, 0, 0, 0, 0, id, 4, 0, 0, 0>>

\* sale.id.substring(0, 8)
IdPrefix(id) == SubSeq(IdText(id), 1, 8)

\* lines 265-269: `INV-${year}${month}${day}-${sale.id.substring(0, 8)}`
InvoiceNumber(id, date) ==
    [prefix |-> "INV",
     date |-> DigitsOf(date.year) \o PadStart(DigitsOf(date.month + 1), 2)
                  \o PadStart(DigitsOf(date.date), 2),
     id |-> IdPrefix(id)]

\* a line that shows the price the catalog has now
InvoiceUnitPrice_Catalog(item) == products[item.productId].price

\* line 276: unitPrice: item.price
InvoiceUnitPrice(item) == item.price

\* lines 272-278: the lines of the invoice; the product of the item is named
\* by its id
InvoiceItems(id) ==
    [k \in 1..Len(SaleItemsOf(id)) |->
        [product |-> SaleItemsOf(id)[k].productId,
         quantity |-> SaleItemsOf(id)[k].quantity,
         unitPrice |-> InvoiceUnitPrice(SaleItemsOf(id)[k]),
         totalPrice |-> InvoiceUnitPrice(SaleItemsOf(id)[k]) * SaleItemsOf(id)[k].quantity]]

\* lines 281-292: the invoice of a persisted sale, asked for on the day `today`;
\* a registered customer is named by its id
Invoice(id, today) ==
    [invoiceNumber |-> InvoiceNumber(id, InvoiceDate(sales[id], today)),
     date |-> sales[id].createdAt,
     customerName |-> IF FalsyStr(sales[id].customerId) THEN sales[id].customerName
                      ELSE sales[id].customerId,
     paymentMethod |-> sales[id].paymentMethod,
     items |-> InvoiceItems(id)]
        @@ Amounts(sales[id].totalAmount, Subtotal(sales[id].totalAmount))

\* lines 240-293: findUnique with the items, the products, the user and the
\* customer of the sale, then the invoice computed from what it returned
GetInvoice(p, id, today) ==
    /\ pc[p] = "idle"
    /\ IF ~SaleFound(id)
          THEN Finish(p, "getInvoice", NotFoundSale, id, 0, <<>>)
          ELSE Finish(p, "getInvoice", Ok, id, 0, Invoice(id, today))
    /\ snap' = IF SaleFound(id)
               THEN [NoSnap EXCEPT !.invoiced = id, !.again = (snap.invoiced = id)]
               ELSE NoSnap
    /\ UNCHANGED <<products, sales, saleItems, nextSaleId>>
    /\ Track(p)
    /\ UNCHANGED <<repairOrders, users>>

(***************************************************************************)
(* Initial state: the catalog holds both products, with any stock up to    *)
(* MaxStock; nothing has been sold.                                        *)
(***************************************************************************)
Init ==
    /\ products \in {[q \in ProductIds |->
                          [name |-> CatalogName[q], stock |-> s[q],
                           price |-> CatalogPrice[q], isActive |-> TRUE]] :
                       s \in [ProductIds -> 0..MaxStock]}
    /\ sales = <<>>
    /\ saleItems = {}
    /\ nextSaleId = 1
    /\ repairOrders = <<>>
    /\ users = Staff
    /\ pc = [p \in Procs |-> "idle"]
    /\ req = [p \in Procs |-> NoReq]
    /\ loc = [p \in Procs |-> NoLoc]
    /\ res = [p \in Procs |-> NoRes]
    /\ wrote = [p \in Procs |-> FALSE]
    /\ snap = NoSnap

(***************************************************************************)
(* Requests.                                                               *)
(***************************************************************************)
CreateDto(items, customerId, customerName, paymentMethod) ==
    [items |-> items, customerId |-> customerId, customerName |-> customerName,
     paymentMethod |-> paymentMethod, hasItems |-> TRUE]

\* a request without the items property
WithoutItems(dto) == [dto EXCEPT !.items = <<>>, !.hasItems = FALSE]

\* overlapping requests: sales of one product, or of two different products
\* in either order, every item with the same quantity and at the catalog price
RaceItems ==
    {s \in SeqsUpTo(ItemDtos(ProductIds, {<<>>}), MaxItems) :
        /\ Len(s) >= 1
        /\ \A j, k \in 1..Len(s) :
              j # k => s[j].productId # s[k].productId /\ s[j].quantity = s[k].quantity}

RaceDtos == {CreateDto(items, Undef, Undef, "CASH") : items \in RaceItems}

\* the product that overlapping requests remove from the catalog
RaceRemovable == {"p2"}

\* one request at a time: every shape of the item list; an item of an
\* unresolvable product is rejected before its quantity and price are read
AllItemDtos ==
    ItemDtos(ProductIds, {<<>>} \cup {<<n>> : n \in 0..MaxPrice})
        \cup {[productId |-> NoProduct, quantity |-> 1, price |-> <<>>]}

AllDtos ==
    {CreateDto(items, Undef, Undef, "CASH") : items \in SeqsUpTo(AllItemDtos, MaxItems)}

\* one request at a time: every shape of the customer of the candidate sale
\* an item list with one item in stock and one of an unresolvable product
MixedItems ==
    <<[productId |-> "p1", quantity |-> 1, price |-> <<>>],
      [productId |-> NoProduct, quantity |-> 1, price |-> <<>>]>>

MetaDtos ==
    LET given == {CreateDto(items, c[1], c[2], "CASH") :
                    items \in RaceItems \cup {<<>>, MixedItems},
                    c \in {<<Undef, Undef>>, <<"c1", Undef>>, <<NoCustomer, Undef>>,
                           <<Undef, "Ana">>}}
    IN  given \cup {WithoutItems(dto) : dto \in given}

\* UpdateSaleDto: every field optional; items absent, an empty array or one item
PatchItems == {<<>>, <<[productId |-> "p1", quantity |-> 1, price |-> <<>>]>>}

Patches ==
    LET given == [items : PatchItems, hasItems : {TRUE},
                  customerId : {Undef, "c1", NoCustomer},
                  customerName : {Undef, "Ana"}, paymentMethod : {Undef, "YAPE"}]
    IN  given \cup {WithoutItems(dto) : dto \in given}

(***************************************************************************)
(* Overlapping requests of two clients.                                    *)
(***************************************************************************)
Next ==
    \E p \in Procs :
        \/ \E dto \in RaceDtos, u \in UserIds \cup {NoUser} : CreateBegin(p, dto, u)
        \/ CreateFindMany(p)
        \/ CreateInsert(p, Epoch)
        \/ CreateDecrement(p)
        \/ CreateCommit(p)
        \/ TxAbort(p)
        \/ \E id \in SaleIds : DeleteFind(p, id)
        \/ DeleteIncrement(p)
        \/ DeleteItems(p)
        \/ DeleteSaleRow(p)
        \/ DeleteCommit(p)
        \/ \E id \in RaceRemovable : RemoveFind(p, id)
        \/ RemoveCount(p)
        \/ RemoveWrite(p)

\* the overlapping requests start on a full stock
RaceInit == Init /\ \A q \in ProductIds : products[q].stock = MaxStock

Spec == RaceInit /\ [][Next]_vars

(***************************************************************************)
(* One client whose requests do not overlap: sales of every item shape.    *)
(***************************************************************************)
Client == "a"

SeqNext ==
    \/ \E dto \in AllDtos : CreateBegin(Client, dto, "u1")
    \/ CreateFindMany(Client)
    \/ CreateInsert(Client, Epoch)
    \/ CreateDecrement(Client)
    \/ CreateCommit(Client)
    \/ \E id \in SaleIds : DeleteFind(Client, id)
    \/ DeleteIncrement(Client)
    \/ DeleteItems(Client)
    \/ DeleteSaleRow(Client)
    \/ DeleteCommit(Client)

SeqSpec == Init /\ [][SeqNext]_vars

(***************************************************************************)
(* One client whose requests do not overlap: sales of every customer       *)
(* shape, created, updated and deleted.                                    *)
(***************************************************************************)
MetaNext ==
    \/ \E dto \in MetaDtos, u \in UserIds \cup {NoUser} : CreateBegin(Client, dto, u)
    \/ CreateFindMany(Client)
    \/ CreateInsert(Client, Epoch)
    \/ CreateDecrement(Client)
    \/ CreateCommit(Client)
    \/ \E id \in SaleIds : DeleteFind(Client, id)
    \/ DeleteIncrement(Client)
    \/ DeleteItems(Client)
    \/ DeleteSaleRow(Client)
    \/ DeleteCommit(Client)
    \/ \E id \in SaleIds, dto \in Patches : UpdateFind(Client, id, dto)
    \/ UpdateWrite(Client)

MetaSpec == Init /\ [][MetaNext]_vars

(***************************************************************************)
(* One client whose requests do not overlap: sales of one item with every  *)
(* shape of customer, and updates with every value a field of the patch    *)
(* can carry (left out, null, the empty string, a value).                  *)
(***************************************************************************)
OneItem == <<[productId |-> "p1", quantity |-> 1, price |-> <<>>]>>

NameDtos ==
    {CreateDto(OneItem, c[1], c[2], "CASH") :
        c \in {<<Undef, Undef>>, <<"c1", Undef>>, <<Undef, "Ana">>, <<Undef, "">>,
               <<"c1", "Ana">>}}

NamePatches ==
    [items : {<<>>}, hasItems : {FALSE}, customerId : {Undef, Null, "c1"},
     customerName : {Undef, Null, "", "Ana"}, paymentMethod : {Undef}]

NameNext ==
    \/ \E dto \in NameDtos : CreateBegin(Client, dto, "u1")
    \/ CreateFindMany(Client)
    \/ CreateInsert(Client, Epoch)
    \/ CreateDecrement(Client)
    \/ CreateCommit(Client)
    \/ \E id \in SaleIds, dto \in NamePatches : UpdateFind(Client, id, dto)
    \/ UpdateWrite(Client)

NameSpec == Init /\ [][NameNext]_vars

(***************************************************************************)
(* One client whose requests do not overlap: sales, their invoices, and    *)
(* the maintenance of the catalog (a price and the stock set, the stock    *)
(* adjusted), starting on a full stock.                                    *)
(***************************************************************************)
CatalogItems ==
    {<<[productId |-> "p1", quantity |-> q, price |-> <<>>]>> : q \in 1..MaxQty}
        \cup {<<[productId |-> "p1", quantity |-> 1, price |-> <<>>],
                [productId |-> "p2", quantity |-> 1, price |-> <<>>]>>}

CatalogDtos == {CreateDto(items, Undef, Undef, "CASH") : items \in CatalogItems}

\* UpdateSaleDto of the catalog runs: the payment method alone
CatalogPatches ==
    {[items |-> <<>>, hasItems |-> FALSE, customerId |-> Undef, customerName |-> Undef,
      paymentMethod |-> "CASH"]}

\* the product whose price and stock the catalog runs set
Repriced == {"p1"}

\* UpdateProductDto: a new price, a new stock, both or neither
PatchPrices == {59}
ProductPatches ==
    [name : {Undef}, price : {<<>>} \cup {<<n>> : n \in PatchPrices},
     stock : {<<>>, <<MaxStock>>}]

\* updateStock: units added or taken away
StockDeltas == {-1, 1}

CatalogNext ==
    \/ \E dto \in CatalogDtos : CreateBegin(Client, dto, "u1")
    \/ CreateFindMany(Client)
    \/ \E now \in Dates : CreateInsert(Client, now)
    \/ CreateDecrement(Client)
    \/ CreateCommit(Client)
    \/ \E id \in SaleIds : DeleteFind(Client, id)
    \/ DeleteIncrement(Client)
    \/ DeleteItems(Client)
    \/ DeleteSaleRow(Client)
    \/ DeleteCommit(Client)
    \/ \E id \in SaleIds, dto \in CatalogPatches : UpdateFind(Client, id, dto)
    \/ UpdateWrite(Client)
    \/ \E id \in SaleIds, today \in Dates : GetInvoice(Client, id, today)
    \/ \E id \in Repriced \cup {NoProduct}, dto \in ProductPatches :
            ProductUpdateFind(Client, id, dto)
    \/ ProductUpdateWrite(Client)
    \/ \E id \in ProductIds \cup {NoProduct}, quantity \in StockDeltas :
            /\ id \in DOMAIN products => products[id].stock + quantity <= MaxStock
            /\ StockFind(Client, id, quantity)
    \/ StockWrite(Client)

CatalogSpec == RaceInit /\ [][CatalogNext]_vars

(***************************************************************************)
(* One client whose requests do not overlap: sales and their invoices, on  *)
(* a catalog whose first product has any price up to MaxCatalogPrice.      *)
(***************************************************************************)
InvoiceInit ==
    /\ products \in {[q \in ProductIds |->
                          [name |-> CatalogName[q], stock |-> MaxStock,
                           price |-> IF q = "p1" THEN price ELSE CatalogPrice[q],
                           isActive |-> TRUE]] : price \in 1..MaxCatalogPrice}
    /\ sales = <<>>
    /\ saleItems = {}
    /\ nextSaleId = 1
    /\ repairOrders = <<>>
    /\ users = Staff
    /\ pc = [p \in Procs |-> "idle"]
    /\ req = [p \in Procs |-> NoReq]
    /\ loc = [p \in Procs |-> NoLoc]
    /\ res = [p \in Procs |-> NoRes]
    /\ wrote = [p \in Procs |-> FALSE]
    /\ snap = NoSnap

InvoiceNext ==
    \/ \E dto \in CatalogDtos : CreateBegin(Client, dto, "u1")
    \/ CreateFindMany(Client)
    \/ CreateInsert(Client, Epoch)
    \/ CreateDecrement(Client)
    \/ CreateCommit(Client)
    \/ \E id \in SaleIds : GetInvoice(Client, id, Epoch)

InvoiceSpec == InvoiceInit /\ [][InvoiceNext]_vars

(***************************************************************************)
(* Overlapping requests of two clients on the rows of the sales: sales     *)
(* created, updated and deleted while a product is removed from the        *)
(* catalog.                                                                *)
(***************************************************************************)
OwnerNext ==
    \E p \in Procs :
        \/ \E dto \in CatalogDtos : CreateBegin(p, dto, "u1")
        \/ CreateFindMany(p)
        \/ CreateInsert(p, Epoch)
        \/ CreateDecrement(p)
        \/ CreateCommit(p)
        \/ TxAbort(p)
        \/ \E id \in SaleIds : DeleteFind(p, id)
        \/ DeleteIncrement(p)
        \/ DeleteItems(p)
        \/ DeleteSaleRow(p)
        \/ DeleteCommit(p)
        \/ \E id \in SaleIds, dto \in CatalogPatches : UpdateFind(p, id, dto)
        \/ UpdateWrite(p)
        \/ \E id \in RaceRemovable : RemoveFind(p, id)
        \/ RemoveCount(p)
        \/ RemoveWrite(p)

OwnerSpec == RaceInit /\ [][OwnerNext]_vars

(***************************************************************************)
(* Overlapping requests of two clients on the names of the catalog:        *)
(* products created, renamed and imported from files.                      *)
(***************************************************************************)
\* the names of the requests: one that a product of the catalog carries and
\* one that none carries
NewNames == {"Bateria", "Cable"}

\* UpdateProductDto: the name alone
Renames == {[NoPatch EXCEPT !.name = name] : name \in NewNames}

\* the rows of an imported file, each the name it carries: a new name, the
\* same name twice, a name in use, a row without name
ImportFiles == {<<"Cable">>, <<"Cable", "Cable">>, <<"Bateria", "Cable">>, <<"", "Cable">>}

ProductsNext ==
    \E p \in Procs :
        \/ \E name \in NewNames : ProductCreateFind(p, name)
        \/ ProductCreateInsert(p)
        \/ \E id \in Repriced \cup {NoProduct}, dto \in Renames : ProductUpdateFind(p, id, dto)
        \/ ProductUpdateCheck(p)
        \/ ProductUpdateWrite(p)
        \/ \E rows \in ImportFiles : ImportBegin(p, rows)
        \/ ImportFind(p)
        \/ ImportCreate(p)

ProductsSpec == RaceInit /\ [][ProductsNext]_vars

(***************************************************************************)
(* Overlapping requests of two clients on the stock of the catalog: sales  *)
(* created while the stock is adjusted, from any stock up to MaxStock.     *)
(***************************************************************************)
AdjustNext ==
    \E p \in Procs :
        \/ \E dto \in CatalogDtos : CreateBegin(p, dto, "u1")
        \/ CreateFindMany(p)
        \/ CreateInsert(p, Epoch)
        \/ CreateDecrement(p)
        \/ CreateCommit(p)
        \/ TxAbort(p)
        \/ \E id \in ProductIds \cup {NoProduct}, quantity \in StockDeltas :
                /\ id \in DOMAIN products => products[id].stock + quantity <= MaxStock
                /\ StockFind(p, id, quantity)
        \/ StockWrite(p)

AdjustSpec == Init /\ [][AdjustNext]_vars

(***************************************************************************)
(* The repair orders of one client: orders are created, patched with and   *)
(* without items, and moved from one status to another.                    *)
(***************************************************************************)
\* CreateRepairOrderItemDto: the price and the product are optional
RepairItemDtos(pids) ==
    {[productId |-> q, quantity |-> 1, price |-> <<>>] : q \in pids}
        \cup {[productId |-> q, quantity |-> MaxQty, price |-> <<MaxPrice>>] : q \in pids}

OrderDto(customerId, status, cost, items, hasItems) ==
    [customerId |-> customerId, status |-> status, initialReviewCost |-> cost,
     items |-> items, hasItems |-> hasItems]

OrderDtos ==
    {OrderDto(c, s, cost, items, TRUE) :
        c \in {"c1", NoCustomer}, s \in {Undef, InProgress, Completed},
        cost \in {<<>>, <<MaxPrice>>},
        items \in SeqsUpTo(RepairItemDtos({Undef}), MaxItems)}

OrderPatches ==
    {OrderDto(c, s, <<>>, items, TRUE) :
        c \in {Undef, NoCustomer}, s \in {Undef, InProgress, Completed},
        items \in SeqsUpTo(RepairItemDtos({Undef}), MaxItems)}
      \cup {OrderDto(Undef, s, <<>>, <<>>, FALSE) : s \in {Undef, InProgress, Completed}}

RepairNext ==
    \/ \E dto \in OrderDtos : RepairCreateFind(Client, dto)
    \/ RepairCreateInsert(Client)
    \/ \E id \in OrderIds, dto \in OrderPatches : RepairUpdateFind(Client, id, dto)
    \/ \E now \in Dates : RepairUpdateWrite(Client, now)
    \/ \E id \in OrderIds, status \in {Received, InProgress, Completed} :
          RepairStatusFind(Client, id, status)
    \/ \E now \in Dates : RepairStatusWrite(Client, now)

RepairSpec == RaceInit /\ [][RepairNext]_vars

(***************************************************************************)
(* Registration by two clients.                                            *)
(***************************************************************************)
\* RegisterDto, with the role a request may carry besides its declared fields
RegisterDtos == [email : {"ana@shop", "bo@shop", "cy@shop"},
                 role : {Undef, Technician, Admin}]

RegisterNext ==
    \E p \in Procs :
        \/ \E dto \in RegisterDtos : RegisterFind(p, dto)
        \/ UsersCreateFind(p)
        \/ UsersCreateHash(p)
        \/ UsersCreateInsert(p)

RegisterSpec == RaceInit /\ [][RegisterNext]_vars

(***************************************************************************)
(* Overlapping requests of two clients on a product that sales and repair  *)
(* orders reference: sales created and deleted, a repair order created,    *)
(* the product removed.                                                    *)
(***************************************************************************)
\* a repair order of one item, of the removable product or of none
RefOrderDtos ==
    {OrderDto("c1", Undef, <<>>, <<item>>, TRUE) :
        item \in RepairItemDtos(RaceRemovable \cup {Undef})}

RefNext ==
    \E p \in Procs :
        \/ \E dto \in CatalogDtos : CreateBegin(p, dto, "u1")
        \/ CreateFindMany(p)
        \/ CreateInsert(p, Epoch)
        \/ CreateDecrement(p)
        \/ CreateCommit(p)
        \/ TxAbort(p)
        \/ \E id \in SaleIds : DeleteFind(p, id)
        \/ DeleteIncrement(p)
        \/ DeleteItems(p)
        \/ DeleteSaleRow(p)
        \/ DeleteCommit(p)
        \/ \E dto \in RefOrderDtos : RepairCreateFind(p, dto)
        \/ RepairCreateInsert(p)
        \/ \E id \in RaceRemovable : RemoveFind(p, id)
        \/ RemoveCount(p)
        \/ RemoveWrite(p)

RefSpec == RaceInit /\ [][RefNext]_vars

(***************************************************************************)
(* Properties of createSale and deleteSale.                                *)
(***************************************************************************)
\* the persisted rows of a sale
RowsOf(id) == {r \in saleItems : r.saleId = id}

\* C1: when createSale fails inside its atomic phase (the insert of the sale,
\* a stock update or the commit), the call has changed no persisted table
\* at any of its steps, and neither the Sale row nor any Sale Item of the
\* sale it was inserting exists; this includes the stock of the products
\* whose decrement the transaction had already executed.
CreateFailureLeavesNoTrace ==
    \A p \in Procs :
        res[p].op = "createSale" /\ res[p].outcome = Failed =>
            /\ ~wrote[p]
            /\ res[p].saleId \notin DOMAIN sales
            /\ RowsOf(res[p].saleId) = {}

\* a createSale failed at its second stock update, after the first one ran
CreateFailedAfterDecrement ==
    \E p \in Procs :
        res[p].op = "createSale" /\ res[p].outcome = Failed /\ res[p].at = 2

\* C2: with requests that do not overlap, the stock of every product is at
\* least zero in every state, so after every createSale and deleteSale.
SeqStockNonNegative == \A q \in DOMAIN products : products[q].stock >= 0

\* a sale has just taken the whole stock of a product
SoldOut ==
    /\ res[Client].op = "createSale" /\ res[Client].outcome = Ok
    /\ \E q \in DOMAIN products : products[q].stock = 0 /\ snap.stockBefore[q] > 0

\* C3: no createSale, overlapping with another or not, commits a stock below
\* zero: a call whose decrement would take a stock below zero fails instead.
OverlapNeverOversells ==
    [][\A p \in Procs :
          pc[p] = "cs_commit" /\ pc'[p] = "idle" =>
              \A q \in DOMAIN products' : products'[q].stock >= 0]_vars

\* the product ids of the items resolve to as many catalog rows
AllResolve(items) ==
    /\ \A k \in 1..Len(items) : items[k].productId \in DOMAIN products
    /\ \A j, k \in 1..Len(items) : j # k => items[j].productId # items[k].productId

\* the items whose quantity exceeds the stock of their product
ShortAt(items) ==
    {k \in 1..Len(items) : products[items[k].productId].stock < items[k].quantity}

\* C4: when the stock check is reached and fails on the k-th item, the call
\* ends with InsufficientStock naming the first such item and that step
\* changes no table, nothing having been changed for the items before it;
\* a call that ended with InsufficientStock changed nothing at any step.
StockCheckRejects ==
    /\ [](res[Client].outcome = InsufficientStock => ~wrote[Client])
    /\ [][(/\ pc[Client] = "cs_findMany"
           /\ AllResolve(req[Client].dto.items)
           /\ ShortAt(req[Client].dto.items) # {})
          => /\ res'[Client].op = "createSale"
             /\ res'[Client].outcome = InsufficientStock
             /\ res'[Client].at \in ShortAt(req[Client].dto.items)
             /\ \A j \in ShortAt(req[Client].dto.items) : res'[Client].at <= j
             /\ UNCHANGED <<products, sales, saleItems>>]_vars

\* a createSale was rejected because of its second item, the first one passing
RejectedAtSecondItem ==
    res[Client].outcome = InsufficientStock /\ res[Client].at = 2

\* C5: when the deleteSale of a sale follows the createSale that made it, with
\* no other request in between, the delete succeeds, every stock is what it
\* was before the createSale, and the Sale and its Sale Items are gone.
CreateThenDeleteRestores ==
    snap.deleting /\ res[Client].op = "deleteSale" =>
        /\ res[Client].outcome = Ok
        /\ Stocks = snap.stockBefore
        /\ snap.saleId \notin DOMAIN sales
        /\ RowsOf(snap.saleId) = {}

\* a sale has been created and deleted at once, with another sale in place
CreatedThenDeleted ==
    /\ snap.deleting /\ res[Client].op = "deleteSale" /\ res[Client].outcome = Ok
    /\ sales # <<>>

\* C6: the sale that createSale commits has, on each Sale Item, the explicit
\* unit price of the request when there is one and the catalog price of the
\* product otherwise, and its totalAmount is the sum of quantity times that
\* unit price over the items.
TotalFromRequestedPrices ==
    [][pc[Client] = "cs_commit" /\ pc'[Client] = "idle" =>
          LET id == loc[Client].saleId
              items == req[Client].dto.items
              unit == [k \in 1..Len(items) |->
                          IF items[k].price # <<>> THEN items[k].price[1]
                          ELSE products[items[k].productId].price]
          IN  /\ id \in DOMAIN sales'
              /\ sales'[id].totalAmount =
                    SumSeq([k \in 1..Len(items) |-> items[k].quantity * unit[k]])
              /\ \A k \in 1..Len(items) :
                    \E r \in saleItems' :
                        /\ r.saleId = id /\ r.pos = k
                        /\ r.productId = items[k].productId
                        /\ r.quantity = items[k].quantity
                        /\ r.price = unit[k]]_vars

RECURSIVE SumQty(_)
SumQty(rows) ==
    IF rows = {} THEN 0
    ELSE LET r == CHOOSE x \in rows : TRUE IN r.quantity + SumQty(rows \ {r})

\* the quantity of product q that the persisted items of a sale hold
SoldQty(id, q) == SumQty({r \in RowsOf(id) : r.productId = q})

\* C7: the commit of a deleteSale raises the stock of every product by the
\* quantity the Sale Items of the sale hold of it, relative to the stock at
\* that time, and removes exactly these Sale Items and the Sale; a deleteSale
\* in progress, and one that ended with an error, has changed no table.
DeleteIsAllOrNothing ==
    /\ [](\A p \in Procs :
            \/ pc[p] # "idle" /\ req[p].op = "deleteSale"
            \/ res[p].op = "deleteSale" /\ res[p].outcome # Ok
            => ~wrote[p])
    /\ [][\A p \in Procs :
            pc[p] = "ds_commit" /\ pc'[p] = "idle" =>
                LET id == req[p].saleId
                IN  /\ res'[p].outcome = Ok
                    /\ DOMAIN products' = DOMAIN products
                    /\ \A q \in DOMAIN products :
                          products'[q] = [products[q] EXCEPT !.stock = @ + SoldQty(id, q)]
                    /\ RowsOf(id) # {}
                    /\ saleItems' = saleItems \ RowsOf(id)
                    /\ id \in DOMAIN sales
                    /\ DOMAIN sales' = DOMAIN sales \ {id}
                    /\ \A o \in DOMAIN sales' : sales'[o] = sales[o]]_vars

\* two overlapping deleteSale of one sale: one succeeded, the other failed
\* after its stock increments had run
DeletedOnceOfTwo ==
    \E p, r \in Procs :
        /\ res[p].op = "deleteSale" /\ res[p].outcome = Ok
        /\ res[r].op = "deleteSale" /\ res[r].outcome = Failed
        /\ res[r].saleId = res[p].saleId /\ res[r].at > 1

\* C8: a deleteSale whose id matches no sale ends at once with NotFound and
\* changes no table; a sale that exists is never answered with NotFound.
DeleteUnknownIsNotFound ==
    /\ [](\A p \in Procs :
            res[p].op = "deleteSale" /\ res[p].outcome = NotFoundSale => ~wrote[p])
    /\ [][\A p \in Procs, id \in SaleIds :
            DeleteFind(p, id) =>
                IF id \in DOMAIN sales
                THEN pc'[p] # "idle"
                ELSE /\ pc'[p] = "idle"
                     /\ res'[p].op = "deleteSale"
                     /\ res'[p].outcome = NotFoundSale
                     /\ UNCHANGED <<products, sales, saleItems>>]_vars

\* a deleteSale of an unknown id was answered NotFound while a sale exists
UnknownSaleNotFound ==
    \E p \in Procs :
        /\ res[p].op = "deleteSale" /\ res[p].outcome = NotFoundSale
        /\ sales # <<>>

\* C9: an updateSale of an existing sale whose patch carries items, be it an
\* empty list, ends at once with InvalidInput and changes no table: a step
\* that is such a call is a rejection with InvalidInput that leaves every
\* table as it is, and a call that ended so has changed nothing.
UpdateWithItemsRejected ==
    /\ [](res[Client].outcome = InvalidInputItems => ~wrote[Client])
    /\ [][\A id \in DOMAIN sales :
            pc[Client] = "idle" /\ pc'[Client] \in {"idle", "us_update"} =>
                \/ /\ pc'[Client] = "idle"
                   /\ res'[Client].op = "updateSale"
                   /\ res'[Client].outcome = InvalidInputItems
                   /\ UNCHANGED <<products, sales, saleItems>>
                \/ \A dto \in Patches : dto.hasItems => ~UpdateFind(Client, id, dto)]_vars

\* an updateSale was rejected because of its items, the sale being in place
ItemsPatchRejected ==
    /\ res[Client].op = "updateSale" /\ res[Client].outcome = InvalidInputItems
    /\ res[Client].saleId \in DOMAIN sales

\* C10: no step changes the Sale Items or the totalAmount of a sale that
\* exists before and after it, and a successful updateSale changes nothing
\* but the customer reference, the customer name and the payment method of
\* its sale: no stock, no Sale Item, no other sale.
ItemsAndTotalFrozen ==
    [][/\ \A id \in DOMAIN sales \cap DOMAIN sales' :
            /\ sales'[id].totalAmount = sales[id].totalAmount
            /\ {r \in saleItems' : r.saleId = id} = RowsOf(id)
       /\ (pc[Client] = "us_update" /\ res'[Client].outcome = Ok) =>
            LET id == req[Client].saleId
            IN  /\ products' = products
                /\ saleItems' = saleItems
                /\ DOMAIN sales' = DOMAIN sales
                /\ \A o \in DOMAIN sales \ {id} : sales'[o] = sales[o]
                /\ sales'[id].userId = sales[id].userId
                /\ sales'[id].totalAmount = sales[id].totalAmount]_vars

\* an updateSale has changed the customer name and the payment method
MetadataUpdated ==
    /\ res[Client].op = "updateSale" /\ res[Client].outcome = Ok
    /\ res[Client].saleId \in DOMAIN sales
    /\ sales[res[Client].saleId].paymentMethod = "YAPE"
    /\ sales[res[Client].saleId].customerName = "Ana"

\* the quantity of product q that the items of a request ask for
AskedQty(items, q) ==
    SumSeq([k \in 1..Len(items) |->
               IF items[k].productId = q THEN items[k].quantity ELSE 0])

\* C11: the stock check of createSale lets the request through exactly when
\* every item has product.stock >= item.quantity, a quantity equal to the
\* whole stock included, and the commit of a createSale lowers the stock of
\* each sold product by exactly the quantity of its item and leaves every
\* other product as it is.
CreateDecrementsExactly ==
    [][/\ (pc[Client] = "cs_findMany" /\ AllResolve(req[Client].dto.items)) =>
            (pc'[Client] = "cs_create" <=>
                \A k \in 1..Len(req[Client].dto.items) :
                    products[req[Client].dto.items[k].productId].stock
                        >= req[Client].dto.items[k].quantity)
       /\ (pc[Client] = "cs_commit" /\ pc'[Client] = "idle") =>
            /\ res'[Client].outcome = Ok
            /\ DOMAIN products' = DOMAIN products
            /\ \A q \in DOMAIN products :
                  products'[q] = [products[q] EXCEPT
                                    !.stock = @ - AskedQty(req[Client].dto.items, q)]]_vars

\* a sale took the whole stock of one product and left the other untouched
WholeStockSold ==
    /\ res[Client].op = "createSale" /\ res[Client].outcome = Ok
    /\ \E q, o \in DOMAIN products :
          /\ q # o
          /\ snap.stockBefore[q] = MaxQty /\ products[q].stock = 0
          /\ snap.stockBefore[o] > 0 /\ products[o].stock = snap.stockBefore[o]

\* C12: when items of a createSale lack stock, the InsufficientStock error
\* names the product, the available stock and the requested quantity of the
\* first such item in input order, whatever the items after it.
FirstShortReported ==
    [][(/\ pc[Client] = "cs_findMany"
        /\ AllResolve(req[Client].dto.items)
        /\ ShortAt(req[Client].dto.items) # {})
       => LET items == req[Client].dto.items
              k == CHOOSE j \in ShortAt(items) : \A i \in ShortAt(items) : j <= i
          IN  /\ res'[Client].outcome = InsufficientStock
              /\ res'[Client].info =
                    [product |-> items[k].productId,
                     available |-> products[items[k].productId].stock,
                     requested |-> items[k].quantity]]_vars

\* two items lacked stock and the error names what the first one asked
TwoShortFirstReported ==
    /\ res[Client].outcome = InsufficientStock
    /\ snap.short = 2
    /\ res[Client].at = 1
    /\ res[Client].info.requested > res[Client].info.available

EmptySaleRejectedFirst ==
    /\ [](res[Client].outcome = InvalidInputEmpty => ~wrote[Client])
    /\ [][(/\ pc[Client] = "idle"
           /\ pc'[Client] = "cs_findMany" \/ res'[Client].op = "createSale") =>
                \/ /\ pc'[Client] = "idle"
                   /\ res'[Client].outcome = InvalidInputEmpty
                   /\ UNCHANGED <<products, sales, saleItems>>
                \/ \A dto \in MetaDtos, u \in UserIds \cup {NoUser} :
                      (~dto.hasItems \/ dto.items = <<>>) => ~CreateBegin(Client, dto, u)]_vars

\* a createSale without items was rejected while a sale is in place
EmptySaleRejected ==
    /\ res[Client].op = "createSale" /\ res[Client].outcome = InvalidInputEmpty
    /\ sales # <<>>

\* C15: every persisted sale has a customer reference or a non-empty
\* customer name, after any sequence of createSale and updateSale calls.
EverySaleHasCustomer ==
    \A id \in DOMAIN sales :
        \/ sales[id].customerId \notin {Undef, Null, ""}
        \/ sales[id].customerName \notin {Undef, Null, ""}

(***************************************************************************)
(* Properties of the catalog and of the invoice.                           *)
(***************************************************************************)
\* C16: the unit price of a Sale Item is fixed when the sale is made.  A price
\* update of the catalog (ProductsService.update) leaves every SaleItem row
\* and the totalAmount of every sale as they were, and the lines of the
\* invoice of every sale (unit price, line total) are the same after it as
\* before; the lines getInvoice returns carry the stored price of the item
\* and that price times the quantity.
PriceFixedAtSale ==
    [][/\ ProductUpdateWrite(Client) =>
            /\ saleItems' = saleItems
            /\ \A id \in DOMAIN sales :
                  /\ id \in DOMAIN sales'
                  /\ sales'[id].totalAmount = sales[id].totalAmount
                  /\ InvoiceItems(id)' = InvoiceItems(id)
       /\ res'[Client].op = "getInvoice" /\ res'[Client].outcome = Ok =>
            LET lines == res'[Client].info.items
                items == SaleItemsOf(res'[Client].saleId)
            IN  /\ Len(lines) = Len(items)
                /\ \A k \in 1..Len(items) :
                      /\ lines[k].unitPrice = items[k].price
                      /\ lines[k].totalPrice = items[k].price * items[k].quantity]_vars

\* an invoice returned after the price of a sold product was changed: a line
\* shows a unit price that is not the price of the catalog
InvoiceAfterPriceChange ==
    /\ res[Client].op = "getInvoice"
    /\ res[Client].outcome = Ok
    /\ \E k \in 1..Len(res[Client].info.items) :
          LET line == res[Client].info.items[k]
          IN  /\ line.product \in DOMAIN products
              /\ line.unitPrice # products[line.product].price

\* the stock of product q differs after the step, q in the catalog before and after
StockChanged(q) ==
    /\ q \in DOMAIN products
    /\ q \in DOMAIN products'
    /\ products'[q].stock # products[q].stock

\* C17: as the claim states it: the stock of an existing product changes only
\* at the commit of a createSale or of a deleteSale.
StockOnlyThroughSales ==
    [][\A q \in ProductIds :
          StockChanged(q) => CreateCommit(Client) \/ DeleteCommit(Client)]_vars

\* C17, amended: the stock of an existing product changes only at the commit
\* of a createSale (lowered by the quantity sold), at the commit of a
\* deleteSale (raised by the quantity restored), at the write of a product
\* update whose request carries a stock (set to that stock) and at the write
\* of updateStock (raised by its quantity, which may be negative).  No step
\* of updateSale or getInvoice, no lookup and no failed call changes it.
StockWriters ==
    [][\A q \in ProductIds :
          StockChanged(q) =>
              \/ /\ CreateCommit(Client)
                 /\ products'[q].stock = products[q].stock - AskedQty(loc[Client].items, q)
              \/ /\ DeleteCommit(Client)
                 /\ products'[q].stock = products[q].stock + AskedQty(loc[Client].items, q)
              \/ /\ ProductUpdateWrite(Client)
                 /\ req[Client].productId = q
                 /\ req[Client].patch.stock = <<products'[q].stock>>
              \/ /\ StockWrite(Client)
                 /\ req[Client].productId = q
                 /\ products'[q].stock = products[q].stock + req[Client].quantity]_vars

\* updateStock and a product update have each changed a stock, outside any sale
StockAdjusted ==
    /\ res[Client].op \in {"updateStock", "updateProduct"}
    /\ res[Client].outcome = Ok
    /\ wrote[Client]
    /\ sales = <<>>
    /\ \E q \in DOMAIN products : products[q].stock # MaxStock

\* C18: the invoice getInvoice returns carries subtotal = totalAmount / 1.18
\* and tax = totalAmount - subtotal, computed as the code computes them, in
\* double precision, and the sum subtotal + tax, computed the same way, is
\* the totalAmount of the sale; a totalAmount of 118 gives the subtotal 100
\* and the tax 18.
InvoiceAmountsAddUp ==
    res[Client].op = "getInvoice" /\ res[Client].outcome = Ok =>
        LET invoice == res[Client].info
        IN  /\ invoice.totalAmount = sales[res[Client].saleId].totalAmount
            /\ invoice.subtotal = FDiv(FromInt(invoice.totalAmount), TaxFactor)
            /\ invoice.tax = FSub(FromInt(invoice.totalAmount), invoice.subtotal)
            /\ FAdd(invoice.subtotal, invoice.tax) = FromInt(invoice.totalAmount)
            /\ invoice.totalAmount = 118 =>
                  invoice.subtotal = FromInt(100) /\ invoice.tax = FromInt(18)

\* the invoice of a sale of 118: two units of a product priced 59
InvoiceOfOneHundredEighteen ==
    /\ res[Client].op = "getInvoice"
    /\ res[Client].outcome = Ok
    /\ res[Client].info.totalAmount = 118
    /\ res[Client].info.subtotal = FromInt(100)

\* the line totals of an invoice
LineTotals(invoice) == [k \in 1..Len(invoice.items) |-> invoice.items[k].totalPrice]

\* C19: getInvoice changes no table, on any outcome.  The number of the
\* invoice it returns is INV, the day the sale was created as the eight
\* digits of year * 10000 + month * 100 + day, and the first eight characters
\* of the id of the sale, whatever the day of the request; and when the call
\* before was a getInvoice of the same sale, the number and the line totals
\* are those that call returned.
InvoiceIsRepeatable ==
    [][res'[Client].op = "getInvoice" =>
          /\ UNCHANGED <<products, sales, saleItems, nextSaleId>>
          /\ ~wrote'[Client]
          /\ res'[Client].outcome = Ok =>
                LET id == res'[Client].saleId
                    day == sales[id].createdAt
                    invoice == res'[Client].info
                IN  /\ invoice.invoiceNumber.prefix = "INV"
                    /\ invoice.invoiceNumber.date =
                          DigitsOf(day.year * 10000 + (day.month + 1) * 100 + day.date)
                    /\ invoice.invoiceNumber.id = SubSeq(IdText(id), 1, 8)
                    /\ snap'.again =>
                          /\ res[Client].op = "getInvoice"
                          /\ res[Client].saleId = id
                          /\ invoice.invoiceNumber = res[Client].info.invoiceNumber
                          /\ LineTotals(invoice) = LineTotals(res[Client].info)]_vars

\* the invoice of a sale was returned twice in a row
InvoicedTwice ==
    /\ res[Client].op = "getInvoice"
    /\ res[Client].outcome = Ok
    /\ snap.again
    /\ snap.invoiced = res[Client].saleId

\* the quantity of product q that the persisted Sale Items hold
Sold(q) == SumQty({r \in saleItems : r.productId = q})

\* the sum of price * quantity over the rows of a sale
RECURSIVE SumAmount(_)
SumAmount(rows) ==
    IF rows = {} THEN 0
    ELSE LET r == CHOOSE x \in rows : TRUE
         IN  r.price * r.quantity + SumAmount(rows \ {r})

\* C20: what a reader outside the transactions can see, the committed
\* tables, never holds a part of a createSale or of a deleteSale, however
\* the calls of the two clients overlap: every Sale has all its Sale Items
\* (positions 1..n, their amounts adding up to its totalAmount), every Sale
\* Item has its Sale, and the stock of every product of the catalog is the
\* initial stock less the quantity the persisted Sale Items hold of it.
ReadersSeeWholeSales ==
    /\ \A id \in DOMAIN sales :
          /\ RowsOf(id) # {}
          /\ {r.pos : r \in RowsOf(id)} = 1..Cardinality(RowsOf(id))
          /\ SumAmount(RowsOf(id)) = sales[id].totalAmount
    /\ \A r \in saleItems : r.saleId \in DOMAIN sales
    /\ \A q \in DOMAIN products : products[q].stock + Sold(q) = MaxStock

\* a createSale has run every statement of its transaction and not committed:
\* the tables show nothing of it, and the other client, looking the sale up
\* in a deleteSale, was told it does not exist
ReaderDuringCreate ==
    \E p, q \in Procs :
        /\ pc[p] = "cs_commit"
        /\ TxView(p).products # products
        /\ loc[p].saleId \notin DOMAIN sales
        /\ res[q].op = "deleteSale"
        /\ res[q].outcome = NotFoundSale
        /\ res[q].saleId = loc[p].saleId

(***************************************************************************)
(* Properties of the rows of a sale.                                       *)
(***************************************************************************)
\* C21: every persisted Sale Item belongs to a persisted Sale and every
\* persisted Sale has at least one Sale Item, in every reachable state; and a
\* step that removes a Sale Item is the commit of a deleteSale of the sale the
\* item belongs to: no step of updateSale, of a product removal or of the
\* deleteSale of another sale removes it.
ItemsOwnedBySale ==
    /\ [](/\ \A r \in saleItems : r.saleId \in DOMAIN sales
          /\ \A id \in DOMAIN sales : RowsOf(id) # {})
    /\ [][\A r \in saleItems \ saleItems' :
            \E p \in Procs :
                /\ pc[p] = "ds_commit"
                /\ req[p].saleId = r.saleId
                /\ res'[p].op = "deleteSale"
                /\ res'[p].outcome = Ok]_vars

\* one sale has been deleted, its items with it, while another sale that was
\* updated keeps its items and a product of the catalog has been removed
OtherSaleKeepsItems ==
    \E p \in Procs, id \in DOMAIN sales :
        /\ res[p].op = "deleteSale"
        /\ res[p].outcome = Ok
        /\ res[p].saleId # id
        /\ RowsOf(id) # {}
        /\ sales[id].paymentMethod = "CASH"
        /\ DOMAIN products # ProductIds

\* C23: across the overlapping createSale and deleteSale calls of two clients
\* (and product removals, which write no stock), no step changes, for a
\* product of the catalog, its stock plus the quantity that the persisted
\* Sale Items hold of it: a unit leaves the stock with the Sale Item that
\* carries it and comes back with the removal of that item.
StockPlusSoldConstant ==
    [][\A q \in DOMAIN products \cap DOMAIN products' :
            products'[q].stock + Sold(q)' = products[q].stock + Sold(q)]_vars

\* one sale has been deleted and its units are back, while the items of the
\* sale that is left account for the units missing from the stock of a product
UnitsHeldAfterDelete ==
    \E p \in Procs, q \in DOMAIN products :
        /\ res[p].op = "deleteSale"
        /\ res[p].outcome = Ok
        /\ products[q].stock < MaxStock
        /\ Sold(q) = MaxStock - products[q].stock
        /\ \A r \in saleItems : r.saleId # res[p].saleId

\* C24: when two deleteSale of one sale overlap, both having read the sale
\* and its items, they are never both ready to commit, and once the sale is
\* gone the call that is left never gets ready to commit: it ends with an
\* error and its step changes no stock.  A call that ends while the sale
\* still exists either commits, and then the sale is gone and each product is
\* raised by the quantity the items of the sale hold of it, or changes no stock.
DoubleDeleteRestoresOnce ==
    /\ [](\A p, r \in Procs :
            /\ p # r /\ InDeleteTx(p) /\ InDeleteTx(r) /\ req[p].saleId = req[r].saleId
               => ~(pc[p] = "ds_commit" /\ pc[r] = "ds_commit")
            /\ InDeleteTx(p) /\ req[p].saleId \notin DOMAIN sales => pc[p] # "ds_commit")
    /\ [][\A p \in Procs :
            InDeleteTx(p) /\ pc'[p] = "idle" =>
                IF req[p].saleId \in DOMAIN sales /\ res'[p].outcome = Ok
                THEN /\ req[p].saleId \notin DOMAIN sales'
                     /\ \A q \in DOMAIN products :
                           products'[q].stock =
                               products[q].stock + SoldQty(req[p].saleId, q)
                ELSE /\ res'[p].outcome = Failed
                     /\ products' = products]_vars

\* the first of two overlapping deleteSale of one sale has committed; the
\* second, which had read the sale before, has since run its stock increments
\* in its own transaction
SecondDeleteAfterFirst ==
    \E p, r \in Procs :
        /\ res[p].op = "deleteSale"
        /\ res[p].outcome = Ok
        /\ InDeleteTx(r)
        /\ req[r].saleId = res[p].saleId
        /\ loc[r].i > 1

\* C25: as the claim states it: a createSale ends with the InvalidInput "one
\* or more products do not exist" only when the productId of some item
\* resolves to no product of the catalog.
MissingOnlyWhenUnresolved ==
    [][/\ pc[Client] = "cs_findMany"
       /\ res'[Client].outcome = InvalidInputProducts
       => \E k \in 1..Len(req[Client].dto.items) :
              req[Client].dto.items[k].productId \notin DOMAIN products]_vars

(***************************************************************************)
(* Properties of the catalog under overlapping requests.                   *)
(***************************************************************************)
\* C22: as the claim states it: whatever the interleaving of product create,
\* update and import calls, no two products of the catalog carry one name.
ProductNamesUnique ==
    \A q, r \in DOMAIN products : q # r => products[q].name # products[r].name

\* C26: as the claim states it: an updateStock whose quantity would take the
\* stock below zero ends with BadRequest and changes nothing, and the stock
\* of the product is not negative after an updateStock, also when the call
\* overlaps with a createSale or with another updateStock.
AdjustKeepsStockNonNegative ==
    [][\A p \in Procs :
          /\ \A id \in DOMAIN products, quantity \in StockDeltas :
                (StockFind(p, id, quantity) /\ products[id].stock + quantity < 0)
                    => res'[p].outcome = InvalidInputStock /\ products' = products
          /\ (pc[p] = "st_write" /\ res'[p].outcome = Ok)
                => products'[req[p].productId].stock >= 0]_vars

(***************************************************************************)
(* Properties of the repair orders.                                        *)
(***************************************************************************)
\* price * quantity over the stored items of an order
StoredAmount(order) ==
    SumSeq([k \in 1..Len(order.items) |-> order.items[k].price * order.items[k].quantity])

\* C28: the totalCost of every repair order is its initialReviewCost plus the
\* sum of price * quantity over its items, after create and after any
\* sequence of updates, those that replace the items included.
TotalCostIsReviewPlusItems ==
    \A id \in DOMAIN repairOrders :
        repairOrders[id].totalCost
            = repairOrders[id].initialReviewCost + StoredAmount(repairOrders[id])

\* C29: every repair order whose status is COMPLETED has its endDate set,
\* after any sequence of create, update and updateStatus.
CompletedHasEndDate ==
    \A id \in DOMAIN repairOrders :
        repairOrders[id].status = Completed => repairOrders[id].endDate # NoDate

(***************************************************************************)
(* Properties of registration.                                             *)
(***************************************************************************)
\* C30: every user that AuthService.register creates has the role TECHNICIAN,
\* whatever the request says; no call of register yields an ADMIN.
RegisterCreatesTechnician ==
    [][\A e \in DOMAIN users' \ DOMAIN users : users'[e].role = Technician]_vars

(***************************************************************************)
(* Properties of the removal of a product.                                 *)
(***************************************************************************)
\* every Sale Item references a product of the catalog
SoldProductsExist == \A r \in saleItems : r.productId \in DOMAIN products

\* the step that ends the removal by p keeps the row of its product, with its
\* stock: at most isActive changes
RemovalKeepsRow(p) ==
    \/ products' = products
    \/ products' = [products EXCEPT ![req[p].productId].isActive = FALSE]

\* p ends a removal whose product is still in the catalog
RemovalEnds(p) ==
    pc[p] = "pr_write" /\ pc'[p] = "idle" /\ req[p].productId \in DOMAIN products

====
